---- MODULE Spec2Model ----
(***************************************************************************)
(* Lua 5.1 chunk string tools: script/extract.py (Extraction Mode) and     *)
(* script/import.py (Patch Mode).  Buffers are sequences of bytes          *)
(* (0..255), texts are sequences of code points.  Python positions are     *)
(* 0-based; TLA+ sequences are 1-based, so data[p] of the source is        *)
(* data[p + 1] here.                                                       *)
(***************************************************************************)
EXTENDS Integers, Sequences, FiniteSets, TLC

(* ------------------------------ bounds --------------------------------- *)
MaxConsts == 2      \* longest constant table of the varied prototype
MaxKids == 2        \* most child prototypes of one prototype
MaxFiles == 2       \* most files of a directory batch
MaxMapLines == 1    \* most lines of a hand-written mapping file

(* ------------------------- program constants --------------------------- *)
HeaderLen == 12
FlagBlockLen == 4
TagNil == 0
TagBool == 1
TagNumber == 3
TagString == 4
IndexWidth == 5
CounterSeed == -1
CR == 13
LF == 10
Backslash == 92
LetterR == 114
LetterN == 110
Space == 32
MarkerOpen == 9675      \* the character U+25CB
MarkerFull == 9679      \* the character U+25CF
ReplacementChar == 65533
Signature == <<27, 76, 117, 97>>

(* ------------------------------ helpers -------------------------------- *)
Min(a, b) == IF a <= b THEN a ELSE b

Max(a, b) == IF a >= b THEN a ELSE b

\* Python's s[a:b]: a negative bound counts from the end, and out-of-range
\* bounds are clamped, never an error
SliceBound(s, x) == IF x < 0 THEN Max(Len(s) + x, 0) ELSE Min(x, Len(s))

Slice(s, a, b) ==
    LET lo == SliceBound(s, a)
        hi == SliceBound(s, b)
    IN  IF hi <= lo THEN <<>> ELSE SubSeq(s, lo + 1, hi)

\* the 0-based offset struct.unpack_from and data[pos] resolve pos to
\* (a negative pos counts from the end), or -1 when it is out of range
Offset(data, pos, size) ==
    LET eff == IF pos < 0 THEN Len(data) + pos ELSE pos
    IN  IF eff < 0 \/ eff + size > Len(data) THEN -1 ELSE eff

\* Python's s[:-1]
DropLast(s) == IF Len(s) = 0 THEN <<>> ELSE SubSeq(s, 1, Len(s) - 1)

Reverse(s) == [i \in 1..Len(s) |-> s[Len(s) + 1 - i]]

\* the sequences of ss, one after the other
RECURSIVE Concat(_)
Concat(ss) ==
    IF ss = <<>> THEN <<>>
    ELSE IF Len(ss) = 1 THEN ss[1]
    ELSE LET half == Len(ss) \div 2
         IN  Concat(SubSeq(ss, 1, half)) \o Concat(SubSeq(ss, half + 1, Len(ss)))

NoErr == ""

(* ---------------------- struct.pack / struct.unpack -------------------- *)
\* value of a big-endian run of bytes, most significant first
RECURSIVE BigEndianValue(_)
BigEndianValue(bs) ==
    IF bs = <<>> THEN 0
    ELSE BigEndianValue(DropLast(bs)) * 256 + bs[Len(bs)]

\* struct.unpack_from(endian + fmt, data, pos)[0], fmt signed (i, q) or
\* unsigned (I, Q), at the resolved offset off
struct_unpack_from(endian, signed, size, data, off) ==
    LET raw == SubSeq(data, off + 1, off + size)
        be == IF endian = "<" THEN Reverse(raw) ELSE raw
    IN  IF signed /\ be[1] >= 128
        THEN -(1 + BigEndianValue([i \in 1..size |-> 255 - be[i]]))
        ELSE BigEndianValue(be)

RECURSIVE LittleEndianBytes(_, _)
LittleEndianBytes(v, n) ==
    IF n = 0 THEN <<>>
    ELSE <<v % 256>> \o LittleEndianBytes(v \div 256, n - 1)

\* a faulty struct.pack: the byte order is not looked at
struct_pack_littleOnly(endian, size, val) == LittleEndianBytes(val, size)

\* struct.pack(endian + fmt, val)
struct_pack(endian, size, val) ==
    IF endian = "<" THEN LittleEndianBytes(val, size)
    ELSE Reverse(LittleEndianBytes(val, size))

\* a faulty read_header: the length test is off by one, and a buffer of 11
\* bytes passes for a header
read_header_offByOne(data) ==
    IF Slice(data, 0, 4) # Signature
    THEN [err |-> "not a Lua 5.1 chunk (missing \\x1bLua)",
          endian |-> "", int_size |-> 0, size_t_size |-> 0,
          instr_size |-> 0, number_size |-> 0]
    ELSE IF Len(data) < HeaderLen - 1
    THEN [err |-> "header too short",
          endian |-> "", int_size |-> 0, size_t_size |-> 0,
          instr_size |-> 0, number_size |-> 0]
    ELSE [err |-> NoErr,
          endian |-> IF data[7] = 1 THEN "<" ELSE ">",
          int_size |-> data[8], size_t_size |-> data[9],
          instr_size |-> data[10], number_size |-> data[11]]

(* ----------------------------- read_header ----------------------------- *)
read_header(data) ==
    IF Slice(data, 0, 4) # Signature
    THEN [err |-> "not a Lua 5.1 chunk (missing \\x1bLua)",
          endian |-> "", int_size |-> 0, size_t_size |-> 0,
          instr_size |-> 0, number_size |-> 0]
    ELSE IF Len(data) < HeaderLen
    THEN [err |-> "header too short",
          endian |-> "", int_size |-> 0, size_t_size |-> 0,
          instr_size |-> 0, number_size |-> 0]
    ELSE [err |-> NoErr,
          endian |-> IF data[7] = 1 THEN "<" ELSE ">",
          int_size |-> data[8], size_t_size |-> data[9],
          instr_size |-> data[10], number_size |-> data[11]]

(* --------------------------- primitive codec --------------------------- *)
\* a read answers [err, val, pos]; err = NoErr when it succeeded
read_int(data, endian, size, pos) ==
    IF size \notin {4, 8}
    THEN [err |-> "unsupported int size", val |-> 0, pos |-> pos]
    ELSE IF Offset(data, pos, size) < 0
    THEN [err |-> "struct.error", val |-> 0, pos |-> pos]
    ELSE [err |-> NoErr,
          val |-> struct_unpack_from(endian, TRUE, size, data, Offset(data, pos, size)),
          pos |-> pos + size]

write_int(buf, endian, size, val) ==
    IF size \notin {4, 8}
    THEN [err |-> "unsupported int size", buf |-> buf]
    ELSE [err |-> NoErr, buf |-> buf \o struct_pack(endian, size, val)]

read_size_t(data, endian, size, pos) ==
    IF size \notin {4, 8}
    THEN [err |-> "unsupported size_t size", val |-> 0, pos |-> pos]
    ELSE IF Offset(data, pos, size) < 0
    THEN [err |-> "struct.error", val |-> 0, pos |-> pos]
    ELSE [err |-> NoErr,
          val |-> struct_unpack_from(endian, FALSE, size, data, Offset(data, pos, size)),
          pos |-> pos + size]

write_size_t(buf, endian, size, val) ==
    IF size \notin {4, 8}
    THEN [err |-> "unsupported size_t size", buf |-> buf]
    ELSE [err |-> NoErr, buf |-> buf \o struct_pack(endian, size, val)]

\* an optional byte string: None, or the bytes
None == [isNone |-> TRUE, bytes |-> <<>>]
Some(bs) == [isNone |-> FALSE, bytes |-> bs]

\* import.py read_lstring: answers [err, val, pos] with val None or Some
read_lstring(data, endian, size_t_size, pos) ==
    LET n == read_size_t(data, endian, size_t_size, pos)
    IN  IF n.err # NoErr THEN [err |-> n.err, val |-> None, pos |-> pos]
        ELSE IF n.val = 0 THEN [err |-> NoErr, val |-> None, pos |-> n.pos]
        ELSE [err |-> NoErr,
              val |-> Some(DropLast(Slice(data, n.pos, n.pos + n.val))),
              pos |-> n.pos + n.val]

write_lstring(buf, endian, size_t_size, s) ==
    IF s.isNone THEN write_size_t(buf, endian, size_t_size, 0)
    ELSE LET w == write_size_t(buf, endian, size_t_size, Len(s.bytes) + 1)
         IN  IF w.err # NoErr THEN w
             ELSE [err |-> NoErr, buf |-> w.buf \o s.bytes \o <<0>>]

\* extract.py read_lstring: the same read, answering also raw_pos and raw_len
ext_read_lstring(data, endian, size_t_size, pos) ==
    LET n == read_size_t(data, endian, size_t_size, pos)
    IN  IF n.err # NoErr
        THEN [err |-> n.err, val |-> None, pos |-> pos, raw_pos |-> -1, raw_len |-> 0]
        ELSE IF n.val = 0
        THEN [err |-> NoErr, val |-> None, pos |-> n.pos, raw_pos |-> -1, raw_len |-> 0]
        ELSE [err |-> NoErr,
              val |-> Some(DropLast(Slice(data, n.pos, n.pos + n.val))),
              pos |-> n.pos + n.val, raw_pos |-> n.pos, raw_len |-> n.val - 1]

(* ------------------------------ encodings ------------------------------ *)
\* bytes.decode("shift_jis"), strict and then errors="replace" when strict
\* fails: ASCII bytes are themselves, 81 9B and 81 9C are the two markers,
\* a byte that starts no character is U+FFFD.  (The texts of the model hold
\* no other double-byte character.)
RECURSIVE decode(_)
decode(raw) ==
    IF raw = <<>> THEN <<>>
    ELSE IF raw[1] < 128 THEN <<raw[1]>> \o decode(Tail(raw))
    ELSE IF raw[1] = 129 /\ Len(raw) >= 2 /\ raw[2] \in {155, 156}
    THEN <<IF raw[2] = 155 THEN MarkerOpen ELSE MarkerFull>> \o decode(Tail(Tail(raw)))
    ELSE <<ReplacementChar>> \o decode(Tail(raw))

\* str.encode("shift_jis", errors="strict"): [err, bytes, bad], bad the
\* first character that has no encoding (UnicodeEncodeError.object[start:end])
RECURSIVE encode(_)
encode(text) ==
    IF text = <<>> THEN [err |-> NoErr, bytes |-> <<>>, bad |-> <<>>]
    ELSE LET c == text[1]
             rest == encode(Tail(text))
         IN  IF c < 128
             THEN [rest EXCEPT !.bytes = <<c>> \o @]
             ELSE IF c \in {MarkerOpen, MarkerFull}
             THEN [rest EXCEPT !.bytes = <<129, IF c = MarkerOpen THEN 155 ELSE 156>> \o @]
             ELSE [err |-> "UnicodeEncodeError", bytes |-> <<>>, bad |-> <<c>>]

\* str.encode("utf-8") of a text file's content
utf8_encode(text) ==
    LET bytes_of(c) ==
            IF c < 128 THEN <<c>>
            ELSE IF c < 2048 THEN <<192 + (c \div 64), 128 + (c % 64)>>
            ELSE <<224 + (c \div 4096), 128 + ((c \div 64) % 64), 128 + (c % 64)>>
    IN  Concat([i \in 1..Len(text) |-> bytes_of(text[i])])

\* bytes.decode("utf-8"), the first candidate of load_mapping; the mapping
\* files of the model are well-formed UTF-8, so the later candidates
\* (utf-8-sig, shift_jis, cp936) are never tried
\* (at_byte: the character that starts at byte i, -1 at a continuation byte)
utf8_decode(bs) ==
    LET at_byte == [i \in 1..Len(bs) |->
                      IF bs[i] < 128 THEN bs[i]
                      ELSE IF bs[i] < 192 THEN -1
                      ELSE IF bs[i] < 224 THEN (bs[i] - 192) * 64 + (bs[i + 1] - 128)
                      ELSE (bs[i] - 224) * 4096 + (bs[i + 1] - 128) * 64
                           + (bs[i + 2] - 128)]
        starts(c) == c >= 0
    IN  SelectSeq(at_byte, starts)

(* ----------------------------- display text ---------------------------- *)
\* str.replace(a, b) for a one-character a
RECURSIVE replace1(_, _, _)
replace1(text, a, b) ==
    IF text = <<>> THEN <<>>
    ELSE (IF text[1] = a THEN b ELSE <<text[1]>>) \o replace1(Tail(text), a, b)

\* str.replace(a, b) for a two-character a: leftmost, non-overlapping
RECURSIVE replace2(_, _, _)
replace2(text, a, b) ==
    IF Len(text) < 2 THEN text
    ELSE IF SubSeq(text, 1, 2) = a THEN b \o replace2(SubSeq(text, 3, Len(text)), a, b)
    ELSE <<text[1]>> \o replace2(Tail(text), a, b)

\* text.replace("\r", "\\r").replace("\n", "\\n")
escape(text) ==
    replace1(replace1(text, CR, <<Backslash, LetterR>>), LF, <<Backslash, LetterN>>)

\* new.replace("\\r", "\r").replace("\\n", "\n")
unescape(new) ==
    replace2(replace2(new, <<Backslash, LetterR>>, <<CR>>), <<Backslash, LetterN>>, <<LF>>)

\* str(n) for n >= 0
RECURSIVE digits(_)
digits(n) == IF n < 10 THEN <<48 + n>> ELSE digits(n \div 10) \o <<48 + (n % 10)>>

\* f"{n:05d}": the sign, then zeros up to the width, then the digits
format_05d(n) ==
    LET sign == IF n < 0 THEN <<45>> ELSE <<>>
        ds == digits(IF n < 0 THEN -n ELSE n)
        pad == Max(IndexWidth - Len(sign) - Len(ds), 0)
    IN  sign \o [i \in 1..pad |-> 48] \o ds

\* a faulty record line: the index is not padded
record_line_unpadded(marker, counter, text_disp) ==
    <<marker>> \o digits(counter) \o <<marker, Space>> \o text_disp

\* f"{marker}{counter:05d}{marker} {text_disp}"
record_line(marker, counter, text_disp) ==
    <<marker>> \o format_05d(counter) \o <<marker, Space>> \o text_disp

\* "\n".join(lines)
RECURSIVE join(_, _)
join(sep, lines) ==
    IF lines = <<>> THEN <<>>
    ELSE IF Len(lines) = 1 THEN lines[1]
    ELSE lines[1] \o sep \o join(sep, Tail(lines))

\* blocks = ["\n".join(strings[i : i + 2]) for i in range(0, len(strings), 2)]
\* "\n\n".join(blocks)
RECURSIVE blocks(_)
blocks(strings) ==
    IF strings = <<>> THEN <<>>
    ELSE <<join(<<LF>>, Slice(strings, 0, 2))>> \o blocks(Slice(strings, 2, Len(strings)))

export_text(strings) == join(<<LF, LF>>, blocks(strings))

(* ------------------------------ load_mapping --------------------------- *)
\* the characters str.splitlines() breaks a line at
LineBreaks == {10, 13, 11, 12, 28, 29, 30, 133, 8232, 8233}

\* str.splitlines(): \r\n is one break, no empty last line.  breaks are
\* the places where a line break starts, in order; line k runs from the end
\* of break k - 1 to the start of break k
splitlines(text) ==
    LET n == Len(text)
        starts_break(i) ==
            text[i] \in LineBreaks /\ ~(text[i] = LF /\ i > 1 /\ text[i - 1] = CR)
        breaks == SelectSeq([i \in 1..n |-> i], starts_break)
        after(k) ==
            IF k = 0 THEN 1
            ELSE IF text[breaks[k]] = CR /\ breaks[k] < n /\ text[breaks[k] + 1] = LF
            THEN breaks[k] + 2
            ELSE breaks[k] + 1
        last == after(Len(breaks))
    IN  [k \in 1..Len(breaks) |-> SubSeq(text, after(k - 1), breaks[k] - 1)]
        \o (IF last <= n THEN <<SubSeq(text, last, n)>> ELSE <<>>)

\* str.find(c): 0 when c is not in text, else its first (1-based) place
RECURSIVE find(_, _, _)
find(text, c, i) ==
    IF i > Len(text) THEN 0 ELSE IF text[i] = c THEN i ELSE find(text, c, i + 1)

\* str.strip() of the blanks int() ignores around the number
RECURSIVE lstrip(_)
lstrip(t) == IF t # <<>> /\ t[1] = Space THEN lstrip(Tail(t)) ELSE t

strip(t) == Reverse(lstrip(Reverse(lstrip(t))))

RECURSIVE digits_value(_)
digits_value(ds) ==
    IF ds = <<>> THEN 0 ELSE digits_value(DropLast(ds)) * 10 + (ds[Len(ds)] - 48)

\* int(head): [ok, val]; blanks around, one sign, then decimal digits
parse_int(head) ==
    LET t == strip(head)
        signed == t # <<>> /\ t[1] \in {43, 45}
        ds == IF signed THEN Tail(t) ELSE t
    IN  IF ds = <<>> \/ \E i \in 1..Len(ds) : ds[i] \notin 48..57
        THEN [ok |-> FALSE, val |-> 0]
        ELSE [ok |-> TRUE,
              val |-> IF signed /\ t[1] = 45 THEN -digits_value(ds) ELSE digits_value(ds)]

\* mapping[idx] = txt
map_set(mapping, idx, txt) ==
    [i \in (DOMAIN mapping) \cup {idx} |-> IF i = idx THEN txt ELSE mapping[i]]

EmptyMapping == [i \in {} |-> <<>>]

\* a faulty load_line: every blank before the text is removed
load_line_stripsAll(mapping, line) ==
    IF line = <<>> \/ line[1] # MarkerFull THEN mapping
    ELSE LET rest == Tail(line)
             k == find(rest, MarkerFull, 1)
             head == SubSeq(rest, 1, k - 1)
             txt == SubSeq(rest, k + 1, Len(rest))
             idx == parse_int(head)
         IN  IF k = 0 \/ ~idx.ok THEN mapping
             ELSE map_set(mapping, idx.val, lstrip(txt))

\* the body of "for line in text.splitlines()": the mapping after the line
load_line(mapping, line) ==
    IF line = <<>> \/ line[1] # MarkerFull THEN mapping
    ELSE LET rest == Tail(line)
             k == find(rest, MarkerFull, 1)
             head == SubSeq(rest, 1, k - 1)
             txt == SubSeq(rest, k + 1, Len(rest))
             idx == parse_int(head)
         IN  IF k = 0 \/ ~idx.ok THEN mapping
             ELSE map_set(mapping, idx.val,
                          IF txt # <<>> /\ txt[1] = Space THEN Tail(txt) ELSE txt)

RECURSIVE load_lines(_, _)
load_lines(mapping, lines) ==
    IF lines = <<>> THEN mapping
    ELSE load_lines(load_line(mapping, lines[1]), Tail(lines))

\* load_mapping(path) for a file holding the bytes data
load_mapping(data) == load_lines(EmptyMapping, splitlines(utf8_decode(data)))

(* --------------------------- patch_const_string ------------------------ *)
\* answers [err, bytes, bad, changed]: the bytes to write for the constant
patch_const_string(raw, idx, mapping) ==
    IF idx \notin DOMAIN mapping
    THEN [err |-> NoErr, bytes |-> raw, bad |-> <<>>, changed |-> FALSE]
    ELSE IF mapping[idx] = escape(decode(raw))
    THEN [err |-> NoErr, bytes |-> raw, bad |-> <<>>, changed |-> FALSE]
    ELSE LET e == encode(unescape(mapping[idx]))
         IN  [err |-> e.err, bytes |-> e.bytes, bad |-> e.bad, changed |-> TRUE]

(* ------------------------------- inputs -------------------------------- *)
\* The chunks the walkers are run on are serialised from prototype trees in
\* the layout process_proto reads; the malformed buffers are derived from one.
BoundedSeq(S, n) == UNION {[1..k -> S] : k \in 0..n}

Header(flag, isz, ssz) ==
    [flag |-> flag, endian |-> IF flag = 1 THEN "<" ELSE ">",
     int_size |-> isz, size_t_size |-> ssz, instr_size |-> 4, number_size |-> 8]

DefaultHeader == Header(1, 4, 4)

Headers == {Header(f, i, z) : f \in {0, 1}, i \in {4, 8}, z \in {4, 8}}

\* the 12 header bytes: signature, version 0x51, format 0, byte-order flag,
\* the four widths, integral flag
header_bytes(h) ==
    Signature \o <<81, 0, h.flag, h.int_size, h.size_t_size,
                   h.instr_size, h.number_size, 0>>

Const(tag, s) == [tag |-> tag, s |-> s]

Str(bs) == Const(TagString, Some(bs))

AbsentStr == Const(TagString, None)

UnknownConst == Const(5, None)

const_bytes(h, c) ==
    <<c.tag>> \o
    (IF c.tag = TagBool THEN <<1>>
     ELSE IF c.tag = TagNumber THEN [i \in 1..h.number_size |-> i]
     ELSE IF c.tag = TagString
     THEN write_lstring(<<>>, h.endian, h.size_t_size, c.s).buf
     ELSE <<>>)

Proto(name, consts, kids, debug) ==
    [name |-> name, consts |-> consts, kids |-> kids, debug |-> debug]

\* a prototype's bytes; with debug information it has one line-info entry,
\* one local variable and one upvalue name, stripped it has none
RECURSIVE proto_bytes(_, _)
proto_bytes(h, p) ==
    LET int(v) == struct_pack(h.endian, h.int_size, v)
        lstr(x) == write_lstring(<<>>, h.endian, h.size_t_size, x).buf
    IN  lstr(p.name) \o int(1) \o int(2) \o <<0, 0, 2, 2>>
        \o int(1) \o [i \in 1..h.instr_size |-> 30 + i]
        \o int(Len(p.consts))
        \o Concat([i \in 1..Len(p.consts) |-> const_bytes(h, p.consts[i])])
        \o int(Len(p.kids))
        \o Concat([i \in 1..Len(p.kids) |-> proto_bytes(h, p.kids[i])])
        \o (IF p.debug
            THEN int(1) \o int(7)
                 \o int(1) \o lstr(Some(<<120>>)) \o int(0) \o int(1)
                 \o int(1) \o lstr(Some(<<117>>))
            ELSE int(0) \o int(0) \o int(0))

chunk_bytes(h, p) == header_bytes(h) \o proto_bytes(h, p)

\* constant tables: every kind of constant, an unknown tag among them
ConstKinds ==
    {Const(TagNil, None), Const(TagBool, None), Const(TagNumber, None),
     AbsentStr, UnknownConst, Str(<<65>>), Str(<<66>>)}

\* payloads of a lone string constant: empty, with LF, with CR, with a form
\* feed, an undecodable byte, a leading blank, a backslash and n, a marker,
\* and "Hello"
Payloads ==
    {<<>>, <<65, 10, 66>>, <<13>>, <<65, 12, 66>>, <<255>>, <<32, 65>>,
     <<92, 110>>, <<129, 156>>, <<72, 101, 108, 108, 111>>}

TableProtos ==
    {Proto(None, cs, <<>>, FALSE) : cs \in BoundedSeq(ConstKinds, MaxConsts)}

StringProtos == {Proto(None, <<Str(s)>>, <<>>, FALSE) : s \in Payloads}

\* nested prototypes, two levels below the top one, each with one string:
\* "A" in the top one, "C" in its children, "B" in theirs
Leaf(d) == Proto(None, <<Str(<<66>>)>>, <<>>, d)

Inner(d) == {Proto(None, <<Str(<<67>>)>>, ks, d) : ks \in BoundedSeq({Leaf(d)}, MaxKids)}

TreeProtos ==
    UNION {{Proto(Some(<<64, 97>>), <<Str(<<65>>)>>, ks, d) :
               ks \in BoundedSeq(Inner(d), MaxKids)} : d \in BOOLEAN}

WidthProto == Proto(Some(<<64, 97>>), <<Str(<<65>>), Const(TagNumber, None)>>,
                    <<Leaf(TRUE)>>, TRUE)

\* a prototype tree is well formed when no constant table of it holds an
\* unknown tag
RECURSIVE WellFormed(_)
WellFormed(p) ==
    /\ \A i \in 1..Len(p.consts) : p.consts[i] # UnknownConst
    /\ \A i \in 1..Len(p.kids) : WellFormed(p.kids[i])

\* an input file: its bytes, and what kind of input it is
Input(data, kind) == [data |-> data, kind |-> kind]

BaseChunk == chunk_bytes(DefaultHeader, Proto(None, <<Str(<<65>>)>>, <<>>, FALSE))

TableInputs ==
    {Input(chunk_bytes(DefaultHeader, p),
           IF WellFormed(p) THEN "valid" ELSE "unknown_tag") : p \in TableProtos}

StringInputs == {Input(chunk_bytes(DefaultHeader, p), "valid") : p \in StringProtos}

TreeInputs == {Input(chunk_bytes(DefaultHeader, p), "valid") : p \in TreeProtos}

WidthInputs == {Input(chunk_bytes(h, WidthProto), "valid") : h \in Headers}

\* a prototype without code, constants and children whose sizelineinfo
\* is -3
NegativeSizeChunk ==
    LET int(v) == struct_pack(DefaultHeader.endian, DefaultHeader.int_size, v)
    IN  header_bytes(DefaultHeader)
        \o write_lstring(<<>>, DefaultHeader.endian, DefaultHeader.size_t_size, None).buf
        \o int(1) \o int(2) \o <<0, 0, 2, 2>> \o int(0) \o int(0) \o int(0) \o int(-3)

\* not chunks: no signature, a cut header, an unsupported width, a cut
\* body, a byte after the top prototype, a negative size
MalformedInputs ==
    {Input(<<>>, "bad_signature"),
     Input(<<28>> \o Tail(BaseChunk), "bad_signature"),
     Input(SubSeq(BaseChunk, 1, 3), "bad_signature"),
     Input(SubSeq(BaseChunk, 1, 7), "short_header"),
     Input(SubSeq(BaseChunk, 1, HeaderLen - 1), "short_header"),
     Input(chunk_bytes([DefaultHeader EXCEPT !.int_size = 2],
                       Proto(None, <<>>, <<>>, FALSE)), "bad_width"),
     Input(chunk_bytes([DefaultHeader EXCEPT !.size_t_size = 2],
                       Proto(None, <<>>, <<>>, FALSE)), "bad_width"),
     Input(DropLast(BaseChunk), "truncated"),
     Input(BaseChunk \o <<0>>, "trailing"),
     Input(NegativeSizeChunk, "negative_size")}

\* the files a single-file run is given
SingleInputs ==
    TableInputs \cup StringInputs \cup TreeInputs \cup WidthInputs \cup MalformedInputs

\* the files of a directory batch
BatchInputs ==
    {Input(BaseChunk, "valid"),
     Input(chunk_bytes(DefaultHeader, Proto(None, <<Str(<<65>>), Str(<<66>>)>>, <<>>, FALSE)),
           "valid"),
     Input(chunk_bytes(DefaultHeader, Proto(None, <<Str(<<65>>), UnknownConst>>, <<>>, FALSE)),
           "unknown_tag"),
     Input(<<28>> \o Tail(BaseChunk), "bad_signature")}

(* ------------------- process_proto, piece by piece --------------------- *)
\* Each piece of process_proto is an operator from the state of the walk
\* before it to the state after it; err # NoErr says that it raised.
FirstErr(errs) ==
    IF \A i \in 1..Len(errs) : errs[i] = NoErr THEN NoErr
    ELSE errs[CHOOSE i \in 1..Len(errs) :
                 errs[i] # NoErr /\ \A j \in 1..(i - 1) : errs[j] = NoErr]

\* data[pos]: [err, val]
byte_at(data, pos) ==
    IF Offset(data, pos, 1) < 0 THEN [err |-> "IndexError", val |-> 0]
    ELSE [err |-> NoErr, val |-> data[Offset(data, pos, 1) + 1]]

\* extract.py: source name, line_defined, last_line_defined, the flag
\* block, the instructions, and sizek
ext_prologue(data, h, pos) ==
    LET name == ext_read_lstring(data, h.endian, h.size_t_size, pos)
        a == read_int(data, h.endian, h.int_size, name.pos)
        b == read_int(data, h.endian, h.int_size, a.pos)
        sizecode == read_int(data, h.endian, h.int_size, b.pos + FlagBlockLen)
        sizek == read_int(data, h.endian, h.int_size,
                          sizecode.pos + sizecode.val * h.instr_size)
    IN  [err |-> FirstErr(<<name.err, a.err, b.err, sizecode.err, sizek.err>>),
         pos |-> sizek.pos, n |-> sizek.val]

\* a faulty ext_constant: the counter is incremented for an absent string
\* too
ext_constant_countsAbsent(data, h, pos, counter) ==
    LET t == byte_at(data, pos)
        s == ext_read_lstring(data, h.endian, h.size_t_size, pos + 1)
        same(e, p) == [err |-> e, pos |-> p, counter |-> counter,
                       recs |-> <<>>, idx |-> <<>>]
    IN  IF t.err # NoErr THEN same(t.err, pos)
        ELSE IF t.val = TagNil THEN same(NoErr, pos + 1)
        ELSE IF t.val = TagBool THEN same(NoErr, pos + 2)
        ELSE IF t.val = TagNumber THEN same(NoErr, pos + 1 + h.number_size)
        ELSE IF t.val = TagString
        THEN IF s.err # NoErr THEN same(s.err, pos)
             ELSE IF s.val.isNone
             THEN [same(NoErr, s.pos) EXCEPT !.counter = counter + 1]
             ELSE LET text_disp == escape(decode(s.val.bytes))
                  IN  [err |-> NoErr, pos |-> s.pos, counter |-> counter + 1,
                       recs |-> <<record_line(MarkerOpen, counter + 1, text_disp),
                                  record_line(MarkerFull, counter + 1, text_disp)>>,
                       idx |-> <<counter + 1>>]
        ELSE same("unknown constant type", pos)

\* extract.py: one turn of "for _ in range(sizek)"; recs are the records
\* appended to out, idx the indices they carry
ext_constant(data, h, pos, counter) ==
    LET t == byte_at(data, pos)
        s == ext_read_lstring(data, h.endian, h.size_t_size, pos + 1)
        same(e, p) == [err |-> e, pos |-> p, counter |-> counter,
                       recs |-> <<>>, idx |-> <<>>]
    IN  IF t.err # NoErr THEN same(t.err, pos)
        ELSE IF t.val = TagNil THEN same(NoErr, pos + 1)
        ELSE IF t.val = TagBool THEN same(NoErr, pos + 2)
        ELSE IF t.val = TagNumber THEN same(NoErr, pos + 1 + h.number_size)
        ELSE IF t.val = TagString
        THEN IF s.err # NoErr THEN same(s.err, pos)
             ELSE IF s.val.isNone THEN same(NoErr, s.pos)
             ELSE LET text_disp == escape(decode(s.val.bytes))
                  IN  [err |-> NoErr, pos |-> s.pos, counter |-> counter + 1,
                       recs |-> <<record_line(MarkerOpen, counter + 1, text_disp),
                                  record_line(MarkerFull, counter + 1, text_disp)>>,
                       idx |-> <<counter + 1>>]
        ELSE same("unknown constant type", pos)

\* extract.py: sizep
ext_proto_count(data, h, pos) ==
    LET sizep == read_int(data, h.endian, h.int_size, pos)
    IN  [err |-> sizep.err, pos |-> sizep.pos, n |-> sizep.val]

\* extract.py: the line info, and sizelocvars
ext_lineinfo(data, h, pos) ==
    LET sizelineinfo == read_int(data, h.endian, h.int_size, pos)
        sizelocvars == read_int(data, h.endian, h.int_size,
                                sizelineinfo.pos + sizelineinfo.val * h.int_size)
    IN  [err |-> FirstErr(<<sizelineinfo.err, sizelocvars.err>>),
         pos |-> sizelocvars.pos, n |-> sizelocvars.val]

\* extract.py: one turn of "for _ in range(sizelocvars)"
ext_locvar(data, h, pos) ==
    LET s == ext_read_lstring(data, h.endian, h.size_t_size, pos)
    IN  [err |-> s.err, pos |-> s.pos + h.int_size * 2]

\* extract.py: sizeupvalues
ext_upvalue_count(data, h, pos) ==
    LET sizeupvalues == read_int(data, h.endian, h.int_size, pos)
    IN  [err |-> sizeupvalues.err, pos |-> sizeupvalues.pos, n |-> sizeupvalues.val]

\* extract.py: one turn of "for _ in range(sizeupvalues)"
ext_upvalue(data, h, pos) ==
    LET s == ext_read_lstring(data, h.endian, h.size_t_size, pos)
    IN  [err |-> s.err, pos |-> s.pos]

\* import.py: source name, line_defined, last_line_defined, the flag block,
\* the instructions, and sizek, each written as it was read
imp_prologue(data, h, pos, out) ==
    LET name == read_lstring(data, h.endian, h.size_t_size, pos)
        w1 == write_lstring(out, h.endian, h.size_t_size, name.val)
        a == read_int(data, h.endian, h.int_size, name.pos)
        b == read_int(data, h.endian, h.int_size, a.pos)
        w2 == write_int(w1.buf, h.endian, h.int_size, a.val)
        w3 == write_int(w2.buf, h.endian, h.int_size, b.val)
        o4 == w3.buf \o Slice(data, b.pos, b.pos + FlagBlockLen)
        sizecode == read_int(data, h.endian, h.int_size, b.pos + FlagBlockLen)
        w5 == write_int(o4, h.endian, h.int_size, sizecode.val)
        o6 == w5.buf \o Slice(data, sizecode.pos,
                              sizecode.pos + sizecode.val * h.instr_size)
        sizek == read_int(data, h.endian, h.int_size,
                          sizecode.pos + sizecode.val * h.instr_size)
        w7 == write_int(o6, h.endian, h.int_size, sizek.val)
    IN  [err |-> FirstErr(<<name.err, w1.err, a.err, b.err, w2.err, w3.err,
                            sizecode.err, w5.err, sizek.err, w7.err>>),
         pos |-> sizek.pos, n |-> sizek.val, out |-> w7.buf]

\* a faulty imp_constant: the counter is incremented for an absent string
\* too
imp_constant_countsAbsent(data, h, pos, counter, mapping, out) ==
    LET t == byte_at(data, pos)
        o1 == Append(out, t.val)
        s == read_lstring(data, h.endian, h.size_t_size, pos + 1)
        p == patch_const_string(s.val.bytes, counter + 1, mapping)
        w == write_lstring(o1, h.endian, h.size_t_size,
                           IF s.val.isNone THEN None ELSE Some(p.bytes))
        same(e, q, o) == [err |-> e, bad |-> <<>>, pos |-> q, counter |-> counter,
                          out |-> o, idx |-> <<>>, subs |-> <<>>]
    IN  IF t.err # NoErr THEN same(t.err, pos, out)
        ELSE IF t.val = TagNil THEN same(NoErr, pos + 1, o1)
        ELSE IF t.val = TagBool
        THEN same(NoErr, pos + 2, o1 \o Slice(data, pos + 1, pos + 2))
        ELSE IF t.val = TagNumber
        THEN same(NoErr, pos + 1 + h.number_size,
                  o1 \o Slice(data, pos + 1, pos + 1 + h.number_size))
        ELSE IF t.val = TagString
        THEN IF s.err # NoErr THEN same(s.err, pos, out)
             ELSE IF s.val.isNone
             THEN [same(w.err, s.pos, w.buf) EXCEPT !.counter = counter + 1]
             ELSE IF p.err # NoErr
             THEN [same(p.err, pos, out) EXCEPT !.bad = p.bad, !.idx = <<counter + 1>>,
                                                !.counter = counter + 1]
             ELSE [err |-> w.err, bad |-> <<>>, pos |-> s.pos, counter |-> counter + 1,
                   out |-> w.buf, idx |-> <<counter + 1>>,
                   subs |-> IF p.changed
                            THEN <<[lo |-> pos + 1, hi |-> s.pos, idx |-> counter + 1,
                                    len |-> Len(w.buf) - Len(o1)]>>
                            ELSE <<>>]
        ELSE same("unknown constant type", pos, out)

\* a faulty imp_constant: a constant of an unknown tag is copied as a
\* constant without payload, and the walk goes on
imp_constant_copiesUnknown(data, h, pos, counter, mapping, out) ==
    LET t == byte_at(data, pos)
        o1 == Append(out, t.val)
        s == read_lstring(data, h.endian, h.size_t_size, pos + 1)
        p == patch_const_string(s.val.bytes, counter + 1, mapping)
        w == write_lstring(o1, h.endian, h.size_t_size,
                           IF s.val.isNone THEN None ELSE Some(p.bytes))
        same(e, q, o) == [err |-> e, bad |-> <<>>, pos |-> q, counter |-> counter,
                          out |-> o, idx |-> <<>>, subs |-> <<>>]
    IN  IF t.err # NoErr THEN same(t.err, pos, out)
        ELSE IF t.val = TagNil THEN same(NoErr, pos + 1, o1)
        ELSE IF t.val = TagBool
        THEN same(NoErr, pos + 2, o1 \o Slice(data, pos + 1, pos + 2))
        ELSE IF t.val = TagNumber
        THEN same(NoErr, pos + 1 + h.number_size,
                  o1 \o Slice(data, pos + 1, pos + 1 + h.number_size))
        ELSE IF t.val = TagString
        THEN IF s.err # NoErr THEN same(s.err, pos, out)
             ELSE IF s.val.isNone THEN same(w.err, s.pos, w.buf)
             ELSE IF p.err # NoErr
             THEN [same(p.err, pos, out) EXCEPT !.bad = p.bad, !.idx = <<counter + 1>>,
                                                !.counter = counter + 1]
             ELSE [err |-> w.err, bad |-> <<>>, pos |-> s.pos, counter |-> counter + 1,
                   out |-> w.buf, idx |-> <<counter + 1>>,
                   subs |-> IF p.changed
                            THEN <<[lo |-> pos + 1, hi |-> s.pos, idx |-> counter + 1,
                                    len |-> Len(w.buf) - Len(o1)]>>
                            ELSE <<>>]
        ELSE same(NoErr, pos + 1, o1)

\* import.py: one turn of "for _ in range(sizek)"; idx are the indices
\* patch_const_string was called with, subs the substitutions made: the
\* place [lo, hi) of the constant's length prefix and payload in data, its
\* index, and the length of what was written for it
imp_constant(data, h, pos, counter, mapping, out) ==
    LET t == byte_at(data, pos)
        o1 == Append(out, t.val)
        s == read_lstring(data, h.endian, h.size_t_size, pos + 1)
        p == patch_const_string(s.val.bytes, counter + 1, mapping)
        w == write_lstring(o1, h.endian, h.size_t_size,
                           IF s.val.isNone THEN None ELSE Some(p.bytes))
        same(e, q, o) == [err |-> e, bad |-> <<>>, pos |-> q, counter |-> counter,
                          out |-> o, idx |-> <<>>, subs |-> <<>>]
    IN  IF t.err # NoErr THEN same(t.err, pos, out)
        ELSE IF t.val = TagNil THEN same(NoErr, pos + 1, o1)
        ELSE IF t.val = TagBool
        THEN same(NoErr, pos + 2, o1 \o Slice(data, pos + 1, pos + 2))
        ELSE IF t.val = TagNumber
        THEN same(NoErr, pos + 1 + h.number_size,
                  o1 \o Slice(data, pos + 1, pos + 1 + h.number_size))
        ELSE IF t.val = TagString
        THEN IF s.err # NoErr THEN same(s.err, pos, out)
             ELSE IF s.val.isNone THEN same(w.err, s.pos, w.buf)
             ELSE IF p.err # NoErr
             THEN [same(p.err, pos, out) EXCEPT !.bad = p.bad, !.idx = <<counter + 1>>,
                                                !.counter = counter + 1]
             ELSE [err |-> w.err, bad |-> <<>>, pos |-> s.pos, counter |-> counter + 1,
                   out |-> w.buf, idx |-> <<counter + 1>>,
                   subs |-> IF p.changed
                            THEN <<[lo |-> pos + 1, hi |-> s.pos, idx |-> counter + 1,
                                    len |-> Len(w.buf) - Len(o1)]>>
                            ELSE <<>>]
        ELSE same("unknown constant type", pos, out)

\* import.py: sizep
imp_proto_count(data, h, pos, out) ==
    LET sizep == read_int(data, h.endian, h.int_size, pos)
        w == write_int(out, h.endian, h.int_size, sizep.val)
    IN  [err |-> FirstErr(<<sizep.err, w.err>>), pos |-> sizep.pos,
         n |-> sizep.val, out |-> w.buf]

\* a faulty imp_lineinfo: the line entries are read and not written
imp_lineinfo_dropsLines(data, h, pos, out) ==
    LET sizelineinfo == read_int(data, h.endian, h.int_size, pos)
        w1 == write_int(out, h.endian, h.int_size, sizelineinfo.val)
        last == sizelineinfo.pos + sizelineinfo.val * h.int_size
        sizelocvars == read_int(data, h.endian, h.int_size, last)
        w3 == write_int(w1.buf, h.endian, h.int_size, sizelocvars.val)
    IN  [err |-> FirstErr(<<sizelineinfo.err, w1.err, sizelocvars.err, w3.err>>),
         pos |-> sizelocvars.pos, n |-> sizelocvars.val, out |-> w3.buf]

\* import.py: the line info, and sizelocvars
imp_lineinfo(data, h, pos, out) ==
    LET sizelineinfo == read_int(data, h.endian, h.int_size, pos)
        w1 == write_int(out, h.endian, h.int_size, sizelineinfo.val)
        last == sizelineinfo.pos + sizelineinfo.val * h.int_size
        o2 == w1.buf \o Slice(data, sizelineinfo.pos, last)
        sizelocvars == read_int(data, h.endian, h.int_size, last)
        w3 == write_int(o2, h.endian, h.int_size, sizelocvars.val)
    IN  [err |-> FirstErr(<<sizelineinfo.err, w1.err, sizelocvars.err, w3.err>>),
         pos |-> sizelocvars.pos, n |-> sizelocvars.val, out |-> w3.buf]

\* import.py: one turn of "for _ in range(sizelocvars)"
imp_locvar(data, h, pos, out) ==
    LET s == read_lstring(data, h.endian, h.size_t_size, pos)
        w1 == write_lstring(out, h.endian, h.size_t_size, s.val)
        a == read_int(data, h.endian, h.int_size, s.pos)
        b == read_int(data, h.endian, h.int_size, a.pos)
        w2 == write_int(w1.buf, h.endian, h.int_size, a.val)
        w3 == write_int(w2.buf, h.endian, h.int_size, b.val)
    IN  [err |-> FirstErr(<<s.err, w1.err, a.err, b.err, w2.err, w3.err>>),
         pos |-> b.pos, out |-> w3.buf]

\* import.py: sizeup
imp_upvalue_count(data, h, pos, out) ==
    LET sizeup == read_int(data, h.endian, h.int_size, pos)
        w == write_int(out, h.endian, h.int_size, sizeup.val)
    IN  [err |-> FirstErr(<<sizeup.err, w.err>>), pos |-> sizeup.pos,
         n |-> sizeup.val, out |-> w.buf]

\* import.py: one turn of "for _ in range(sizeup)"
imp_upvalue(data, h, pos, out) ==
    LET s == read_lstring(data, h.endian, h.size_t_size, pos)
        w == write_lstring(out, h.endian, h.size_t_size, s.val)
    IN  [err |-> FirstErr(<<s.err, w.err>>), pos |-> s.pos, out |-> w.buf]

(* ------------------------------ mapping files -------------------------- *)
\* hand-written mapping files: lines "(marker)(index)(marker) (text)" for
\* the indices 0 and 1 and the texts A, X and one that shift_jis cannot
\* encode (the euro sign)
MapLines ==
    {record_line(MarkerFull, i, t) : i \in {0, 1}, t \in {<<65>>, <<88>>, <<8364>>}}

MapFiles == {utf8_encode(join(<<LF>>, ls)) : ls \in BoundedSeq(MapLines, MaxMapLines)}

\* the mapping files tried on every input; the others are tried on the
\* constant tables and the batches
BasicMapFiles ==
    {utf8_encode(<<>>), utf8_encode(record_line(MarkerFull, 0, <<88>>)),
     utf8_encode(record_line(MarkerFull, 1, <<8364>>))}

(* -------------------------------- state --------------------------------- *)
VARIABLES
    batch,      \* TRUE: the input path is a directory, FALSE: one file
    files,      \* the input files, in sorted order
    tool,       \* the program running: "extract", then "import"
    pc,         \* where it is: "open", "walk", "exit", "crash"
    cur,        \* the file being processed (1-based place in files)
    txtFile,    \* per input file, the .txt that extract.py wrote
    outFile,    \* per input file, the chunk that import.py wrote
    log,        \* what the programs printed, in order
    mapIsOut,   \* import.py's map argument is what extract.py wrote
    mapFile,    \* else, the mapping file it is given
    mapping,    \* the mapping table of the file being patched
    hdr,        \* read_header's answer for the file being processed
    pos,        \* the read cursor
    stack,      \* the process_proto calls in progress, innermost last
    counter,    \* counter[0]
    strings,    \* extract.py's list of records
    out,        \* import.py's output buffer
    extIdx,     \* per file, the indices extract.py's records carry
    patIdx,     \* per file, the indices patch_const_string was called with
    extEnd,     \* per file, how extract.py ended on it: "" (not yet, or
                \* never), "returned" (process_proto returned), or the
                \* message of the exception raised
    impEnd,     \* per file, how import.py ended on it: "", "skipped" (no
                \* mapping file for it), "copied" (empty mapping),
                \* "returned", or the message of the exception raised
    subs,       \* per file, the substitutions import.py's walk made
    probe       \* a function of the programs called on its own: the
                \* call's arguments and, once made, its answer

vars == <<batch, files, tool, pc, cur, txtFile, outFile, log, mapIsOut, mapFile,
          mapping, hdr, pos, stack, counter, strings, out, extIdx, patIdx,
          extEnd, impEnd, subs, probe>>

\* (probe is with the arguments: no step of the two programs changes it)
args == <<batch, files, mapIsOut, mapFile, probe>>

walk == <<hdr, pos, stack, counter, strings, out, mapping>>

NoFile == [exists |-> FALSE, bytes |-> <<>>]

File(bs) == [exists |-> TRUE, bytes |-> bs]

NoHeader == [err |-> NoErr, endian |-> "", int_size |-> 0, size_t_size |-> 0,
             instr_size |-> 0, number_size |-> 0]

\* a call of process_proto: where it is, the turns its loop has left, and
\* the pos it was called with
Frame(phase, left, start) == [phase |-> phase, left |-> left, start |-> start]

\* a printed line: [OK], [SKIP] or [FAIL] with its message, or the traceback
\* of an uncaught exception (ERROR); bad is the fragment a [FAIL] line of
\* patch_file names
Report(t, i, kind, msg, bad) ==
    [tool |-> t, file |-> i, kind |-> kind, msg |-> msg, bad |-> bad]

data == files[cur].data

\* no function is called on its own
NoProbe == [fn |-> ""]

top == stack[Len(stack)]

\* the two programs before extract.py starts
ProgramInit ==
    /\ batch \in BOOLEAN
    /\ files \in IF batch THEN BoundedSeq(BatchInputs, MaxFiles)
                 ELSE [1..1 -> SingleInputs]
    /\ tool = "extract"
    /\ pc = "open"
    /\ cur = 1
    /\ txtFile = [i \in 1..Len(files) |-> NoFile]
    /\ outFile = [i \in 1..Len(files) |-> NoFile]
    /\ log = <<>>
    /\ mapIsOut = FALSE
    /\ mapFile = <<>>
    /\ mapping = EmptyMapping
    /\ hdr = NoHeader
    /\ pos = 0
    /\ stack = <<>>
    /\ counter = CounterSeed
    /\ strings = <<>>
    /\ out = <<>>
    /\ extIdx = [i \in 1..Len(files) |-> <<>>]
    /\ patIdx = [i \in 1..Len(files) |-> <<>>]
    /\ extEnd = [i \in 1..Len(files) |-> ""]
    /\ impEnd = [i \in 1..Len(files) |-> ""]
    /\ subs = [i \in 1..Len(files) |-> <<>>]

Init == ProgramInit /\ probe = NoProbe

(* ------------------------------ the drivers ----------------------------- *)
\* the file is finished with these lines printed: a batch goes on to the
\* next file, a single-file run returns
NextFile(reports) ==
    /\ log' = log \o reports
    /\ IF batch THEN cur' = cur + 1 /\ pc' = "open"
       ELSE cur' = cur /\ pc' = "exit"

\* an exception nobody catches ends the program with a traceback
Crash(msg) ==
    /\ log' = Append(log, Report(tool, cur, "ERROR", msg, <<>>))
    /\ pc' = "crash"
    /\ cur' = cur

\* a faulty patch_file: UnicodeEncodeError is not caught apart, and ends as
\* any other exception does
Raised_noEncodingHandler(err, bad) ==
    IF tool = "extract" THEN
        /\ extEnd' = [extEnd EXCEPT ![cur] = err]
        /\ Crash(err)
        /\ UNCHANGED <<impEnd, outFile, txtFile>>
    ELSE
        /\ impEnd' = [impEnd EXCEPT ![cur] = err]
        /\ UNCHANGED <<extEnd, outFile, txtFile>>
        /\ IF batch THEN NextFile(<<Report(tool, cur, "FAIL", err, <<>>)>>)
           ELSE Crash(err)

\* process_proto raised.  extract.py catches nothing around the walk;
\* patch_file catches UnicodeEncodeError, prints the fragment and returns
\* (so a batch prints its [OK] line after it), and the batch loop of
\* import.py catches every other exception
Raised(err, bad) ==
    IF tool = "extract" THEN
        /\ extEnd' = [extEnd EXCEPT ![cur] = err]
        /\ Crash(err)
        /\ UNCHANGED <<impEnd, outFile, txtFile>>
    ELSE
        /\ impEnd' = [impEnd EXCEPT ![cur] = err]
        /\ UNCHANGED <<extEnd, outFile, txtFile>>
        /\ IF err = "UnicodeEncodeError"
           THEN NextFile(<<Report(tool, cur, "FAIL", err, bad)>>
                         \o IF batch THEN <<Report(tool, cur, "OK", "", <<>>)>> ELSE <<>>)
           ELSE IF batch THEN NextFile(<<Report(tool, cur, "FAIL", err, <<>>)>>)
           ELSE Crash(err)

\* a faulty start of the walk: the counter is seeded with 0
StartWalk_seedZero(h, o, m) ==
    /\ hdr' = h
    /\ pos' = HeaderLen
    /\ stack' = <<Frame("proto", 0, HeaderLen)>>
    /\ counter' = 0
    /\ strings' = <<>>
    /\ out' = o
    /\ mapping' = m
    /\ pc' = "walk"

\* the walk starts on the current file
StartWalk(h, o, m) ==
    /\ hdr' = h
    /\ pos' = HeaderLen
    /\ stack' = <<Frame("proto", 0, HeaderLen)>>
    /\ counter' = CounterSeed
    /\ strings' = <<>>
    /\ out' = o
    /\ mapping' = m
    /\ pc' = "walk"

\* extract.py main: read the next file and its header
ExtOpen ==
    /\ tool = "extract" /\ pc = "open" /\ cur <= Len(files)
    /\ LET h == read_header(data)
       IN  IF h.err # NoErr
           THEN /\ IF batch THEN NextFile(<<Report(tool, cur, "SKIP", h.err, <<>>)>>)
                   ELSE Crash(h.err)
                /\ extEnd' = [extEnd EXCEPT ![cur] = h.err]
                /\ UNCHANGED walk
           ELSE /\ StartWalk(h, <<>>, EmptyMapping)
                /\ UNCHANGED <<cur, log, extEnd>>
    /\ UNCHANGED <<args, tool, txtFile, outFile, extIdx, patIdx, impEnd, subs>>

\* extract.py main: process_proto returned, the blocks are written
ExtWrite ==
    /\ tool = "extract" /\ pc = "walk" /\ stack = <<>>
    /\ txtFile' = [txtFile EXCEPT ![cur] = File(utf8_encode(export_text(strings)))]
    /\ extEnd' = [extEnd EXCEPT ![cur] = "returned"]
    /\ NextFile(IF batch THEN <<Report(tool, cur, "OK", "", <<>>)>> ELSE <<>>)
    /\ UNCHANGED <<args, tool, outFile, extIdx, patIdx, impEnd, subs, walk>>

\* the loop over the directory's files is over
BatchDone ==
    /\ batch /\ pc = "open" /\ cur > Len(files)
    /\ pc' = "exit"
    /\ UNCHANGED <<args, tool, cur, txtFile, outFile, log, extIdx, patIdx,
                   extEnd, impEnd, subs, walk>>

\* import.py is run on the same input, with the map argument either what
\* extract.py wrote (its output file, or its output directory) or a
\* mapping file
StartImport ==
    /\ tool = "extract" /\ pc \in {"exit", "crash"}
    /\ tool' = "import" /\ pc' = "open" /\ cur' = 1
    /\ \/ mapIsOut' = TRUE /\ mapFile' = <<>>
       \/ /\ mapIsOut' = FALSE
          /\ mapFile' \in IF batch \/ files[1] \in TableInputs
                          THEN MapFiles \cup BasicMapFiles ELSE BasicMapFiles
    /\ UNCHANGED <<batch, files, probe, txtFile, outFile, log, extIdx, patIdx,
                   extEnd, impEnd, subs, walk>>

\* a faulty start of patch_file: the header is read before the mapping is
\* tested for emptiness
patch_file_start_headerFirst(bytes, m) ==
    LET h == read_header(bytes)
    IN  IF h.err # NoErr THEN [path |-> "fail", h |-> h]
        ELSE IF m = EmptyMapping THEN [path |-> "copy", h |-> NoHeader]
        ELSE [path |-> "walk", h |-> h]

\* the start of patch_file: "copy" when the mapping is empty, else "fail"
\* when read_header raises, else "walk"
patch_file_start(bytes, m) ==
    LET h == read_header(bytes)
    IN  IF m = EmptyMapping THEN [path |-> "copy", h |-> NoHeader]
        ELSE IF h.err # NoErr THEN [path |-> "fail", h |-> h]
        ELSE [path |-> "walk", h |-> h]

\* import.py main and the start of patch_file: find the mapping of the
\* file, copy the file when the mapping is empty, else read the header
ImpOpen ==
    /\ tool = "import" /\ pc = "open" /\ cur <= Len(files)
    /\ UNCHANGED <<args, tool, txtFile, extIdx, patIdx, extEnd, subs>>
    /\ IF mapIsOut /\ ~txtFile[cur].exists
       THEN /\ IF batch
               THEN /\ NextFile(<<Report(tool, cur, "SKIP", "mapping not found", <<>>)>>)
                    /\ impEnd' = [impEnd EXCEPT ![cur] = "skipped"]
               ELSE /\ Crash("FileNotFoundError")
                    /\ impEnd' = [impEnd EXCEPT ![cur] = "FileNotFoundError"]
            /\ UNCHANGED <<outFile, walk>>
       ELSE LET m == load_mapping(IF mapIsOut THEN txtFile[cur].bytes ELSE mapFile)
                st == patch_file_start(data, m)
            IN  IF st.path = "copy"
                THEN /\ outFile' = [outFile EXCEPT ![cur] = File(data)]
                     /\ impEnd' = [impEnd EXCEPT ![cur] = "copied"]
                     /\ NextFile(IF batch THEN <<Report(tool, cur, "OK", "", <<>>)>> ELSE <<>>)
                     /\ UNCHANGED walk
                ELSE IF st.path = "fail"
                THEN /\ IF batch THEN NextFile(<<Report(tool, cur, "FAIL", st.h.err, <<>>)>>)
                        ELSE Crash(st.h.err)
                     /\ impEnd' = [impEnd EXCEPT ![cur] = st.h.err]
                     /\ UNCHANGED <<outFile, walk>>
                ELSE /\ StartWalk(st.h, Slice(data, 0, HeaderLen), m)
                     /\ UNCHANGED <<cur, log, outFile, impEnd>>

\* patch_file: process_proto returned, the output buffer is written
ImpWrite ==
    /\ tool = "import" /\ pc = "walk" /\ stack = <<>>
    /\ outFile' = [outFile EXCEPT ![cur] = File(out)]
    /\ impEnd' = [impEnd EXCEPT ![cur] = "returned"]
    /\ NextFile(IF batch THEN <<Report(tool, cur, "OK", "", <<>>)>> ELSE <<>>)
    /\ UNCHANGED <<args, tool, txtFile, extIdx, patIdx, extEnd, subs, walk>>

(* ------------------------------- the walk ------------------------------- *)
Walking == pc = "walk" /\ stack # <<>>

SetTop(f) == [stack EXCEPT ![Len(stack)] = f]

\* a piece that reads a count went well: the loop over it starts
Counted(r, phase) ==
    /\ pos' = r.pos
    /\ stack' = SetTop(Frame(phase, r.n, top.start))
    /\ out' = IF tool = "import" THEN r.out ELSE out
    /\ UNCHANGED <<args, tool, pc, cur, txtFile, outFile, log, extIdx, patIdx,
                   extEnd, impEnd, hdr, counter, strings, subs, mapping>>

\* one turn of a loop went well
Turned(r) ==
    /\ pos' = r.pos
    /\ stack' = SetTop(Frame(top.phase, top.left - 1, top.start))
    /\ out' = IF tool = "import" THEN r.out ELSE out

Failed(r) ==
    /\ Raised(r.err, <<>>)
    /\ UNCHANGED <<args, tool, extIdx, patIdx, subs, walk>>

ProtoPrologue ==
    /\ Walking /\ top.phase = "proto"
    /\ LET r == IF tool = "extract" THEN ext_prologue(data, hdr, pos)
                ELSE imp_prologue(data, hdr, pos, out)
       IN  IF r.err # NoErr THEN Failed(r) ELSE Counted(r, "consts")

ProtoConstant ==
    /\ Walking /\ top.phase = "consts" /\ top.left > 0
    /\ UNCHANGED <<args, tool, hdr, mapping>>
    /\ IF tool = "extract"
       THEN LET r == ext_constant(data, hdr, pos, counter)
            IN  /\ UNCHANGED <<patIdx, subs>>
                /\ IF r.err # NoErr
                   THEN /\ Raised(r.err, <<>>)
                        /\ UNCHANGED <<extIdx, pos, stack, counter, strings, out>>
                   ELSE /\ Turned(r)
                        /\ counter' = r.counter
                        /\ strings' = strings \o r.recs
                        /\ extIdx' = [extIdx EXCEPT ![cur] = @ \o r.idx]
                        /\ UNCHANGED <<pc, cur, txtFile, outFile, log, extEnd, impEnd>>
       ELSE LET r == imp_constant(data, hdr, pos, counter, mapping, out)
            IN  /\ UNCHANGED <<extIdx, strings>>
                /\ patIdx' = [patIdx EXCEPT ![cur] = @ \o r.idx]
                /\ IF r.err # NoErr
                   THEN /\ Raised(r.err, r.bad)
                        /\ UNCHANGED <<pos, stack, counter, out, subs>>
                   ELSE /\ Turned(r)
                        /\ counter' = r.counter
                        /\ subs' = [subs EXCEPT ![cur] = @ \o r.subs]
                        /\ UNCHANGED <<pc, cur, txtFile, outFile, log, extEnd, impEnd>>

ProtoChildCount ==
    /\ Walking /\ top.phase = "consts" /\ top.left <= 0
    /\ LET r == IF tool = "extract" THEN ext_proto_count(data, hdr, pos)
                ELSE imp_proto_count(data, hdr, pos, out)
       IN  IF r.err # NoErr THEN Failed(r) ELSE Counted(r, "protos")

\* the recursive call of process_proto for the next child
ProtoCall ==
    /\ Walking /\ top.phase = "protos" /\ top.left > 0
    /\ stack' = Append(SetTop(Frame("protos", top.left - 1, top.start)),
                     Frame("proto", 0, pos))
    /\ UNCHANGED <<args, tool, pc, cur, txtFile, outFile, log, extIdx, patIdx,
                   extEnd, impEnd, hdr, pos, counter, strings, out, subs, mapping>>

ProtoLineInfo ==
    /\ Walking /\ top.phase = "protos" /\ top.left <= 0
    /\ LET r == IF tool = "extract" THEN ext_lineinfo(data, hdr, pos)
                ELSE imp_lineinfo(data, hdr, pos, out)
       IN  IF r.err # NoErr THEN Failed(r) ELSE Counted(r, "locvars")

\* a faulty walk: the name of a local variable takes an index
ProtoLocVar_countsName ==
    /\ Walking /\ top.phase = "locvars" /\ top.left > 0
    /\ LET r == IF tool = "extract" THEN ext_locvar(data, hdr, pos)
                ELSE imp_locvar(data, hdr, pos, out)
       IN  IF r.err # NoErr THEN Failed(r)
           ELSE /\ Turned(r)
                /\ counter' = counter + 1
                /\ UNCHANGED <<args, tool, pc, cur, txtFile, outFile, log, extIdx,
                               patIdx, extEnd, impEnd, hdr, strings, subs, mapping>>

ProtoLocVar ==
    /\ Walking /\ top.phase = "locvars" /\ top.left > 0
    /\ LET r == IF tool = "extract" THEN ext_locvar(data, hdr, pos)
                ELSE imp_locvar(data, hdr, pos, out)
       IN  IF r.err # NoErr THEN Failed(r)
           ELSE /\ Turned(r)
                /\ UNCHANGED <<args, tool, pc, cur, txtFile, outFile, log, extIdx,
                               patIdx, extEnd, impEnd, hdr, counter, strings, subs,
                               mapping>>

ProtoUpvalueCount ==
    /\ Walking /\ top.phase = "locvars" /\ top.left <= 0
    /\ LET r == IF tool = "extract" THEN ext_upvalue_count(data, hdr, pos)
                ELSE imp_upvalue_count(data, hdr, pos, out)
       IN  IF r.err # NoErr THEN Failed(r) ELSE Counted(r, "upvalues")

ProtoUpvalue ==
    /\ Walking /\ top.phase = "upvalues" /\ top.left > 0
    /\ LET r == IF tool = "extract" THEN ext_upvalue(data, hdr, pos)
                ELSE imp_upvalue(data, hdr, pos, out)
       IN  IF r.err # NoErr THEN Failed(r)
           ELSE /\ Turned(r)
                /\ UNCHANGED <<args, tool, pc, cur, txtFile, outFile, log, extIdx,
                               patIdx, extEnd, impEnd, hdr, counter, strings, subs,
                               mapping>>

\* "return pos": back in the caller, or out of the walk
ProtoReturn ==
    /\ Walking /\ top.phase = "upvalues" /\ top.left <= 0
    /\ stack' = DropLast(stack)
    /\ UNCHANGED <<args, tool, pc, cur, txtFile, outFile, log, extIdx, patIdx,
                   extEnd, impEnd, hdr, pos, counter, strings, out, subs, mapping>>

Next ==
    \/ ExtOpen
    \/ ExtWrite
    \/ BatchDone
    \/ StartImport
    \/ ImpOpen
    \/ ImpWrite
    \/ ProtoPrologue
    \/ ProtoConstant
    \/ ProtoChildCount
    \/ ProtoCall
    \/ ProtoLineInfo
    \/ ProtoLocVar
    \/ ProtoUpvalueCount
    \/ ProtoUpvalue
    \/ ProtoReturn

Spec == Init /\ [][Next]_vars

(* ----------------------- the functions on their own --------------------- *)
\* every variable of the two programs
program == <<batch, files, tool, pc, cur, txtFile, outFile, log, mapIsOut, mapFile,
             mapping, hdr, pos, stack, counter, strings, out, extIdx, patIdx,
             extEnd, impEnd, subs>>

\* the programs stay as they are before extract.py starts on one file
ProgramIdle == ProgramInit /\ ~batch /\ files = <<Input(BaseChunk, "valid")>>

(* ---- the primitive codec: a write, then a read of what was written ---- *)
\* the integers written: the ends of the range TLC's integers have, and
\* the values around a byte's and a sign's boundaries
IntValues == {0, 1, -1, 127, 128, -128, -129, 255, 256, -256, 65535, 65536,
              2147483647, -2147483647}

SizeValues == {v \in IntValues : v >= 0}

\* the strings written: absent, present and empty, present and not empty
\* (a NUL, a byte above 127 and a line feed among the bytes)
LStrings == {None, Some(<<>>), Some(<<65>>), Some(<<0>>), Some(<<65, 0, 66>>),
             Some(<<255, 10>>)}

\* what the buffer holds before the write
Prefixes == {<<>>, <<7>>, <<1, 0, 0, 0, 0>>}

NoAnswer == [err |-> NoErr, val |-> 0, str |-> None, pos |-> 0]

CodecCall(fn, endian, size, v, s, buf) ==
    [fn |-> fn, step |-> "args", endian |-> endian, size |-> size, v |-> v, s |-> s,
     buf |-> buf, at |-> Len(buf), ans |-> NoAnswer]

CodecCalls ==
    {CodecCall("write_int", e, w, v, None, b) :
        e \in {"<", ">"}, w \in {4, 8}, v \in IntValues, b \in Prefixes}
    \cup {CodecCall("write_size_t", e, w, v, None, b) :
        e \in {"<", ">"}, w \in {4, 8}, v \in SizeValues, b \in Prefixes}
    \cup {CodecCall("write_lstring", e, w, 0, s, b) :
        e \in {"<", ">"}, w \in {4, 8}, s \in LStrings, b \in Prefixes}

CodecInit == ProgramIdle /\ probe \in CodecCalls

\* write_int(buf, ...), write_size_t(buf, ...) or write_lstring(buf, ...)
CodecWrite ==
    /\ probe.step = "args"
    /\ LET w == IF probe.fn = "write_int"
                THEN write_int(probe.buf, probe.endian, probe.size, probe.v)
                ELSE IF probe.fn = "write_size_t"
                THEN write_size_t(probe.buf, probe.endian, probe.size, probe.v)
                ELSE write_lstring(probe.buf, probe.endian, probe.size, probe.s)
       IN  probe' = [probe EXCEPT !.step = "written", !.buf = w.buf,
                                  !.ans = [NoAnswer EXCEPT !.err = w.err]]
    /\ UNCHANGED program

\* the matching read, at the place the write started
CodecRead ==
    /\ probe.step = "written"
    /\ probe' = [probe EXCEPT
           !.step = "read",
           !.ans = IF probe.fn = "write_lstring"
                   THEN LET r == read_lstring(probe.buf, probe.endian, probe.size, probe.at)
                        IN  [err |-> r.err, val |-> 0, str |-> r.val, pos |-> r.pos]
                   ELSE LET r == IF probe.fn = "write_int"
                                 THEN read_int(probe.buf, probe.endian, probe.size, probe.at)
                                 ELSE read_size_t(probe.buf, probe.endian, probe.size,
                                                  probe.at)
                        IN  [err |-> r.err, val |-> r.val, str |-> None, pos |-> r.pos]]
    /\ UNCHANGED program

CodecNext == CodecWrite \/ CodecRead

CodecSpec == CodecInit /\ [][CodecNext]_vars

(* ---- the text: a constant table is extracted, the text is written, ---- *)
(* ---- and load_mapping reads it back                                  ---- *)
\* payloads of the string constants: plain, blanks at both ends, a lone
\* blank, empty, the marker of a mapping line, a tab, a form feed, CR and
\* LF, a backslash and n
TextPayloads ==
    {<<65>>, <<32, 65, 32>>, <<32>>, <<>>, <<129, 156, 65>>, <<9, 65>>,
     <<65, 12, 66>>, <<13, 10>>, <<92, 110>>}

TextTables ==
    BoundedSeq({Str(s) : s \in TextPayloads} \cup {AbsentStr, Const(TagNil, None)},
               MaxConsts)

\* the counter when the table is reached: at the start of a chunk, and
\* after 9 and after 99999 string constants
TextCounters == {CounterSeed, 8, 99998}

\* the walk is at the first constant of a table, the counter at c
TextCall(table, c) ==
    [fn |-> "ext_constant", step |-> "walk",
     data |-> Concat([i \in 1..Len(table) |-> const_bytes(DefaultHeader, table[i])]),
     pos |-> 0, left |-> Len(table), counter |-> c, strings |-> <<>>, idx |-> <<>>,
     file |-> <<>>, mapping |-> EmptyMapping]

\* lines of a mapping file written by hand: as extract.py writes them; with
\* two blanks before and one after the text; without a blank; with the
\* marker in the text; with an index of one digit, of six digits, with
\* blanks around it, with a sign; with the other marker; with no number,
\* no closing marker, nothing before the closing marker; not starting with
\* the marker; empty
LoadLines ==
    {record_line(MarkerFull, 0, <<65>>),
     record_line(MarkerFull, 1, <<66>>),
     <<MarkerFull, 48, 48, 48, 48, 48, MarkerFull, 32, 32, 67, 32>>,
     <<MarkerFull, 48, 48, 48, 48, 49, MarkerFull, 68>>,
     <<MarkerFull, 48, 48, 48, 48, 49, MarkerFull, 32, 69, MarkerFull, 70>>,
     <<MarkerFull, 49, MarkerFull, 32, 71>>,
     <<MarkerFull, 48, 48, 48, 48, 48, 49, MarkerFull, 32, 72>>,
     <<MarkerFull, 32, 48, 49, 32, MarkerFull, 32, 73>>,
     <<MarkerFull, 45, 48, 48, 48, 49, MarkerFull, 32, 74>>,
     <<MarkerFull, 43, 49, MarkerFull>>,
     record_line(MarkerOpen, 0, <<75>>),
     <<MarkerFull, 48, 48, 48, 48, 120, MarkerFull, 32, 76>>,
     <<MarkerFull, 48, 48, 48, 48, 49, 32, 77>>,
     <<MarkerFull, MarkerFull, 32, 78>>,
     <<88, MarkerFull, 48, 48, 48, 48, 48, MarkerFull, 32, 79>>,
     <<>>}

\* load_mapping is about to read a file of these lines
LoadCall(lines) ==
    [TextCall(<<>>, CounterSeed) EXCEPT
        !.fn = "load_mapping", !.step = "exported", !.strings = lines,
        !.file = utf8_encode(join(<<LF>>, lines))]

\* patch_const_string is about to be called for the constant raw, of index
\* 0, with the line extract.py wrote for it after an editor added the
\* letters of edit at its end
PatchCall(raw, edit) ==
    [TextCall(<<>>, CounterSeed) EXCEPT
        !.fn = "patch_const_string", !.step = "edited", !.data = raw,
        !.strings = <<edit>>,
        !.mapping = map_set(EmptyMapping, 0, escape(decode(raw)) \o edit)]

TextInit ==
    /\ ProgramIdle
    /\ probe \in {TextCall(table, c) : table \in TextTables, c \in TextCounters}
                \cup {LoadCall(lines) : lines \in BoundedSeq(LoadLines, MaxMapLines + 1)}
                \cup {PatchCall(raw, edit) :
                         raw \in TextPayloads \cup {<<13>>, <<10>>, <<65, 10, 66>>,
                                                    <<92>>, <<92, 114>>, <<92, 92, 110>>,
                                                    <<92, 13>>, <<255>>},
                         edit \in {<<>>, <<88>>}}

\* extract.py process_proto: one turn of the loop over the constants
TextConstant ==
    /\ probe.step = "walk" /\ probe.left > 0
    /\ LET r == ext_constant(probe.data, DefaultHeader, probe.pos, probe.counter)
       IN  probe' = [probe EXCEPT !.pos = r.pos, !.left = @ - 1, !.counter = r.counter,
                                  !.strings = @ \o r.recs, !.idx = @ \o r.idx]
    /\ UNCHANGED program

\* extract.py main: the blocks are joined and written as UTF-8
TextExport ==
    /\ probe.step = "walk" /\ probe.left = 0
    /\ probe' = [probe EXCEPT !.step = "exported",
                              !.file = utf8_encode(export_text(probe.strings))]
    /\ UNCHANGED program

\* import.py main: load_mapping reads the file
TextLoad ==
    /\ probe.step = "exported"
    /\ probe' = [probe EXCEPT !.step = "loaded", !.mapping = load_mapping(probe.file)]
    /\ UNCHANGED program

\* import.py process_proto: patch_const_string answers the bytes to write,
\* or raises
TextPatch ==
    /\ probe.step = "edited"
    /\ LET r == patch_const_string(probe.data, 0, probe.mapping)
       IN  probe' = [probe EXCEPT !.step = IF r.err = NoErr THEN "patched" ELSE r.err,
                                  !.file = r.bytes]
    /\ UNCHANGED program

TextNext == TextConstant \/ TextExport \/ TextLoad \/ TextPatch

TextSpec == TextInit /\ [][TextNext]_vars

(* ============================== properties ============================== *)
Files == 1..Len(files)

IsPrefix(a, b) == Len(a) <= Len(b) /\ SubSeq(b, 1, Len(a)) = a

HeaderErrors == {"not a Lua 5.1 chunk (missing \\x1bLua)", "header too short"}

\* process_proto was called on file i by extract.py / by import.py, and
\* the call is over
ExtWalked(i) == extEnd[i] \notin {""} \cup HeaderErrors

ImpWalked(i) ==
    impEnd[i] \notin {"", "skipped", "copied", "FileNotFoundError"} \cup HeaderErrors

\* patch_file was called on file i, and the call is over
Patched(i) == impEnd[i] \notin {"", "skipped", "FileNotFoundError"}

\* the mapping table patch_file is given for file i
MappingFor(i) == load_mapping(IF mapIsOut THEN txtFile[i].bytes ELSE mapFile)

Reported(t, i, kinds) ==
    \E k \in 1..Len(log) : log[k].tool = t /\ log[k].file = i /\ log[k].kind \in kinds

HelloChunk ==
    chunk_bytes(DefaultHeader, Proto(None, <<Str(<<72, 101, 108, 108, 111>>)>>, <<>>, FALSE))

AbsentThenPresent ==
    chunk_bytes(DefaultHeader, Proto(None, <<AbsentStr, Str(<<65>>)>>, <<>>, FALSE))

(* C1: round trip.  For every valid chunk whose extracted text is given to
   import.py as the mapping, the patched output is byte-identical to the
   chunk. *)
C1_RoundTrip ==
    \A i \in Files :
        (files[i].kind = "valid" /\ mapIsOut /\ txtFile[i].exists /\ Patched(i))
            => outFile[i] = File(files[i].data)

\* a chunk whose one string constant holds a form feed: "A\fB"
FormFeedChunk ==
    chunk_bytes(DefaultHeader, Proto(None, <<Str(<<65, 12, 66>>)>>, <<>>, FALSE))

C1_Witness ==
    \E i \in Files :
        /\ files[i].data = FormFeedChunk /\ files[i].kind = "valid"
        /\ mapIsOut /\ extEnd[i] = "returned" /\ impEnd[i] = "returned"
        /\ MappingFor(i) = map_set(EmptyMapping, 0, <<65>>)
        /\ outFile[i] = File(BaseChunk)

(* C2: index stability.  On every file both walkers were run on, the
   indices patch_const_string was called with are a prefix of the indices
   the extraction emitted, and they are the same sequence, the two walks
   ending the same way, unless an encoding failure cut the patch walk
   short. *)
C2_IndexStability ==
    \A i \in Files :
        /\ ExtWalked(i) => IsPrefix(patIdx[i], extIdx[i])
        /\ (ExtWalked(i) /\ ImpWalked(i) /\ impEnd[i] # "UnicodeEncodeError")
               => (patIdx[i] = extIdx[i] /\ impEnd[i] = extEnd[i])

C2_Witness ==
    \E i \in Files :
        /\ extEnd[i] = "returned" /\ impEnd[i] = "returned"
        /\ Len(extIdx[i]) >= 3 /\ patIdx[i] = extIdx[i]

(* C3: the counter starts below the first index; the first string constant
   of a chunk gets the first index, in both modes. *)
\* as claimed: the first index is 1, "Hello" extracts under 00001
C3_FirstIndexOne ==
    \A i \in Files :
        /\ extIdx[i] # <<>> => extIdx[i][1] = 1
        /\ patIdx[i] # <<>> => patIdx[i][1] = 1
        /\ (files[i].data = HelloChunk /\ txtFile[i].exists)
               => utf8_decode(txtFile[i].bytes) =
                      <<9675, 48, 48, 48, 48, 49, 9675, 32, 72, 101, 108, 108, 111, 10,
                        9679, 48, 48, 48, 48, 49, 9679, 32, 72, 101, 108, 108, 111>>

\* as the code has it: the counter starts at -1 and is incremented before
\* use, the first index is 0, "Hello" extracts under 00000
C3_FirstIndexZero ==
    /\ (pc = "walk" /\ tool = "extract" /\ extIdx[cur] = <<>>) => counter = -1
    /\ (pc = "walk" /\ tool = "import" /\ patIdx[cur] = <<>>) => counter = -1
    /\ \A i \in Files :
        /\ extIdx[i] # <<>> => extIdx[i][1] = 0
        /\ patIdx[i] # <<>> => patIdx[i][1] = 0
        /\ (files[i].data = HelloChunk /\ txtFile[i].exists)
               => utf8_decode(txtFile[i].bytes) =
                      <<9675, 48, 48, 48, 48, 48, 9675, 32, 72, 101, 108, 108, 111, 10,
                        9679, 48, 48, 48, 48, 48, 9679, 32, 72, 101, 108, 108, 111>>

C3_Witness ==
    \E i \in Files :
        files[i].data = HelloChunk /\ txtFile[i].exists /\ patIdx[i] = <<0>>

(* C4: absent string constants and the index. *)
\* the constant tables of the model with, for each, the number of present
\* string constants in it
RECURSIVE PresentCount(_)
PresentCount(cs) ==
    IF cs = <<>> THEN 0
    ELSE (IF cs[1].tag = 4 /\ ~cs[1].s.isNone THEN 1 ELSE 0) + PresentCount(Tail(cs))

\* the table with the k-th present string (k counted from 0) replaced by
\* the mapping's text for k, when there is one; every other constant, the
\* absent strings among them, as it was
RECURSIVE Substituted(_, _, _)
Substituted(cs, m, k) ==
    IF cs = <<>> THEN <<>>
    ELSE IF cs[1].tag = 4 /\ ~cs[1].s.isNone
    THEN <<IF k \in DOMAIN m THEN Str(m[k]) ELSE cs[1]>> \o Substituted(Tail(cs), m, k + 1)
    ELSE <<cs[1]>> \o Substituted(Tail(cs), m, k)

TableChunk(cs) == chunk_bytes(DefaultHeader, Proto(None, cs, <<>>, FALSE))

Tables == {cs \in BoundedSeq(ConstKinds, MaxConsts) : UnknownConst \notin {cs[j] : j \in 1..Len(cs)}}

TableCases == {[data |-> TableChunk(cs), cs |-> cs] : cs \in Tables}

\* as claimed: after one absent constant, the present string has index 2
C4_AbsentConsumesIndex ==
    \A i \in Files :
        (files[i].data = AbsentThenPresent /\ extEnd[i] = "returned") => extIdx[i] = <<2>>

\* as the code has it: an absent constant consumes no index (after one
\* absent constant the present string has the first index, 0; a table with
\* n present strings has the indices 0..n-1) and is never substituted (the
\* patched table is the table with present strings replaced, nothing else)
C4_AbsentConsumesNoIndex ==
    \A i \in Files :
        /\ (files[i].data = AbsentThenPresent /\ extEnd[i] = "returned") => extIdx[i] = <<0>>
        /\ (files[i].data = AbsentThenPresent /\ impEnd[i] = "returned") => patIdx[i] = <<0>>
        /\ \A c \in TableCases :
              files[i].data = c.data =>
                  /\ extEnd[i] = "returned"
                         => extIdx[i] = [k \in 1..PresentCount(c.cs) |-> k - 1]
                  /\ impEnd[i] = "returned"
                         => outFile[i] = File(TableChunk(Substituted(c.cs, MappingFor(i), 0)))

C4_Witness ==
    \E i \in Files :
        /\ files[i].data = AbsentThenPresent
        /\ impEnd[i] = "returned" /\ subs[i] # <<>> /\ outFile[i].exists

(* C5: the frame of Patch Mode.  What the walk has written is what it has
   read, except at the substituted constants: each of these is a string
   constant (tag 4) whose index is in the mapping with a text that is not
   its display text, and outside their length prefixes and payloads the
   output is the input, byte for byte; the file written for a valid chunk
   is the whole of it, and a mapping entry whose index the extraction gave
   to no string constant substitutes nothing. *)
\* d with, for each substitution, the bytes at [lo, hi) replaced by the len
\* bytes that o has there
RECURSIVE Spliced(_, _, _, _, _)
Spliced(d, o, ss, from_d, from_o) ==
    IF ss = <<>> THEN Slice(d, from_d, Len(d))
    ELSE LET keep == Slice(d, from_d, ss[1].lo)
             at == from_o + Len(keep)
         IN  keep \o Slice(o, at, at + ss[1].len)
                  \o Spliced(d, o, Tail(ss), ss[1].hi, at + ss[1].len)

SubstitutionsOk(i) ==
    LET d == files[i].data
        m == MappingFor(i)
    IN  \A k \in 1..Len(subs[i]) :
            LET sub == subs[i][k]
            IN  /\ HeaderLen < sub.lo /\ sub.lo + d[9] < sub.hi /\ sub.hi <= Len(d)
                /\ k > 1 => subs[i][k - 1].hi < sub.lo
                /\ d[sub.lo] = 4
                /\ sub.idx \in DOMAIN m
                /\ m[sub.idx] # escape(decode(Slice(d, sub.lo + d[9], sub.hi - 1)))

\* (during the walk the output is compared with the input read so far,
\* which says nothing once a negative size has moved the cursor back)
C5_Frame ==
    /\ (tool = "import" /\ pc = "walk" /\ files[cur].kind # "negative_size")
           => /\ out = Spliced(Slice(data, 0, pos), out, subs[cur], 0, 0)
              /\ SubstitutionsOk(cur)
    /\ \A i \in Files :
           (files[i].kind = "valid" /\ outFile[i].exists)
               => /\ outFile[i].bytes = Spliced(files[i].data, outFile[i].bytes, subs[i], 0, 0)
                  /\ SubstitutionsOk(i)
                  /\ extEnd[i] = "returned" =>
                         \A k \in DOMAIN MappingFor(i) :
                             k \notin {extIdx[i][j] : j \in 1..Len(extIdx[i])}
                                 => \A j \in 1..Len(subs[i]) : subs[i][j].idx # k

C5_Witness ==
    \E i \in Files :
        /\ files[i].kind = "valid" /\ outFile[i].exists /\ subs[i] # <<>>
        /\ Len(outFile[i].bytes) # Len(files[i].data)

(* C6: an unknown constant tag. *)
\* as claimed: whatever the mapping, no output file
C6_UnknownTagNoOutput ==
    \A i \in Files :
        files[i].kind = "unknown_tag" => (~txtFile[i].exists /\ ~outFile[i].exists)

\* as the code has it: extraction of the file ends in an uncaught error and
\* writes nothing; patching with a non-empty mapping ends in a reported
\* error and writes nothing; patching with an empty mapping copies the file
\* and reports no error
C6_UnknownTagFatalUnlessCopied ==
    \A i \in Files :
        files[i].kind = "unknown_tag" =>
            /\ ~txtFile[i].exists
            /\ extEnd[i] \in {"", "unknown constant type"}
            /\ extEnd[i] # "" => Reported("extract", i, {"ERROR"})
            /\ ~Patched(i) => ~outFile[i].exists
            /\ (Patched(i) /\ MappingFor(i) # EmptyMapping)
                   => /\ ~outFile[i].exists
                      /\ impEnd[i] \in {"unknown constant type", "UnicodeEncodeError"}
                      /\ Reported("import", i, {"FAIL", "ERROR"})
            /\ (Patched(i) /\ MappingFor(i) = EmptyMapping)
                   => /\ outFile[i] = File(files[i].data)
                      /\ ~Reported("import", i, {"FAIL", "ERROR"})

C6_Witness ==
    \E i \in Files :
        /\ files[i].kind = "unknown_tag"
        /\ impEnd[i] = "unknown constant type" /\ ~outFile[i].exists
        /\ patIdx[i] # <<>>

(* C7: the empty-mapping fast path against the walker path. *)
\* what the walker path does with a file when it substitutes nothing, by
\* the kind of the file
WalkerOutcome(i) ==
    IF files[i].kind = "valid" THEN File(files[i].data)
    ELSE IF files[i].kind = "trailing" THEN File(DropLast(files[i].data))
    ELSE IF files[i].kind = "negative_size"
    THEN File(files[i].data \o <<0, 0, 0, 0, 0, 0, 0, 0>>)
    ELSE NoFile

\* the walker path is as WalkerOutcome says
WalkerPathOutcome ==
    \A i \in Files :
        (ImpWalked(i) \/ impEnd[i] \in HeaderErrors)
            => (subs[i] = <<>> /\ impEnd[i] # "UnicodeEncodeError"
                   => outFile[i] = WalkerOutcome(i))

\* as claimed: the fast path has the outcome of the walker path
C7_FastPathSameAsWalker ==
    \A i \in Files : impEnd[i] = "copied" => outFile[i] = WalkerOutcome(i)

\* as the code has it: with an empty mapping patch_file writes a copy of
\* the input, whatever the input is, and reports nothing; that is the
\* walker path's outcome for a valid chunk, and not for the buffers the
\* walker path fails on or shortens
C7_FastPathCopies ==
    /\ WalkerPathOutcome
    /\ \A i \in Files :
           (Patched(i) /\ MappingFor(i) = EmptyMapping)
               => /\ impEnd[i] = "copied"
                  /\ outFile[i] = File(files[i].data)
                  /\ ~Reported("import", i, {"FAIL", "ERROR"})
                  /\ files[i].kind = "valid" => outFile[i] = WalkerOutcome(i)

C7_Witness ==
    \E i \in Files :
        /\ impEnd[i] = "copied" /\ files[i].kind = "bad_signature"
        /\ outFile[i] = File(files[i].data)

(* C8: a batch goes on after a file's fatal error.  When a batch run of
   either program is over, every file of the batch has been processed, and
   the files that failed have no output. *)
C8_BatchIsolation ==
    batch =>
        /\ (tool = "extract" /\ pc \in {"exit", "crash"})
               => \A i \in Files : extEnd[i] # ""
        /\ (tool = "import" /\ pc \in {"exit", "crash"})
               => \A i \in Files : impEnd[i] # ""
        /\ \A i \in Files :
               /\ extEnd[i] \notin {"", "returned"} => ~txtFile[i].exists
               /\ impEnd[i] \notin {"", "returned", "copied"} => ~outFile[i].exists

C8_Witness ==
    /\ batch /\ tool = "extract" /\ pc = "crash" /\ Len(files) = 2
    /\ files[1].kind = "unknown_tag" /\ extEnd[1] = "unknown constant type"
    /\ files[2].kind = "valid" /\ extEnd[2] = "" /\ ~txtFile[2].exists

(* C9: an encoding failure.  The file has no output, a [FAIL] line names a
   character of the mapping's texts that the destination encoding does not
   have, and the program goes on: a single-file run returns, a batch
   processes every other file. *)
C9_EncodingFailure ==
    /\ \A i \in Files :
           impEnd[i] = "UnicodeEncodeError" =>
               /\ ~outFile[i].exists
               /\ \E k \in 1..Len(log) :
                      /\ log[k].tool = "import" /\ log[k].file = i /\ log[k].kind = "FAIL"
                      /\ Len(log[k].bad) = 1
                      /\ log[k].bad[1] \notin 0..127
                      /\ \E x \in DOMAIN MappingFor(i) :
                             \E j \in 1..Len(MappingFor(i)[x]) :
                                 MappingFor(i)[x][j] = log[k].bad[1]
               /\ pc # "crash"
               /\ ~batch => pc = "exit"
    /\ (batch /\ tool = "import") => pc # "crash"
    /\ (batch /\ tool = "import" /\ pc = "exit") => \A i \in Files : impEnd[i] # ""
    /\ \A i \in Files : impEnd[i] = "returned" => outFile[i].exists

C9_Witness ==
    /\ batch /\ Len(files) = 2
    /\ impEnd[1] = "UnicodeEncodeError" /\ ~outFile[1].exists
    /\ impEnd[2] = "returned" /\ outFile[2].exists

(* C10: read_header.  It fails for exactly the buffers that do not start
   with 1B 4C 75 61 or are shorter than 12 bytes; for the others it answers
   the byte order of byte 6 (1 little, else big) and the widths of bytes
   7 to 10. *)
HeaderOk(d) == Len(d) >= 12 /\ SubSeq(d, 1, 4) = <<27, 76, 117, 97>>

C10_ReadHeader ==
    /\ \A i \in Files :
           /\ extEnd[i] # "" => (extEnd[i] \in HeaderErrors <=> ~HeaderOk(files[i].data))
           /\ (Patched(i) /\ impEnd[i] # "copied")
                  => (impEnd[i] \in HeaderErrors <=> ~HeaderOk(files[i].data))
    /\ pc = "walk" =>
           /\ HeaderOk(data)
           /\ hdr.endian = (IF data[7] = 1 THEN "<" ELSE ">")
           /\ hdr.int_size = data[8] /\ hdr.size_t_size = data[9]
           /\ hdr.instr_size = data[10] /\ hdr.number_size = data[11]

C10_Witness ==
    \E i \in Files :
        /\ Len(files[i].data) = 11 /\ SubSeq(files[i].data, 1, 4) = <<27, 76, 117, 97>>
        /\ extEnd[i] = "header too short"

(* C11: width symmetry of the primitive codec.  For both widths and both
   byte orders, what write_int, write_size_t and write_lstring append to a
   buffer is read back by read_int, read_size_t and read_lstring as the
   value written (an absent string as absent, an empty one as empty), and
   the cursor ends at the end of the buffer; the integers appended take
   the width, a string its length prefix, its bytes and one NUL. *)
C11_WidthSymmetry ==
    /\ probe.step = "written" =>
           /\ probe.ans.err = NoErr
           /\ SubSeq(probe.buf, 1, probe.at) \in Prefixes
           /\ Len(probe.buf) = probe.at + probe.size
                  + (IF probe.fn = "write_lstring" /\ ~probe.s.isNone
                     THEN Len(probe.s.bytes) + 1 ELSE 0)
    /\ probe.step = "read" =>
           /\ probe.ans.err = NoErr
           /\ probe.ans.pos = Len(probe.buf)
           /\ probe.fn = "write_lstring" => probe.ans.str = probe.s
           /\ probe.fn # "write_lstring" => probe.ans.val = probe.v

C11_Witness ==
    /\ probe.step = "read" /\ probe.fn = "write_lstring"
    /\ probe.endian = ">" /\ probe.size = 8
    /\ probe.s = Some(<<>>) /\ probe.ans.str = Some(<<>>)
    /\ probe.at = 5 /\ probe.ans.pos = 14

(* C12: the records of the extraction go in pairs. *)
\* After any number of turns of the constant loop the record list has two
\* records per index given out, the indices are consecutive and the last
\* one is the counter; the two records of a pair are the marker (the first
\* one's U+25CB, the second one's U+25CF), the index in decimal, zero-padded
\* to five digits (exactly five when exact), the marker again, one blank,
\* and the same text, which holds neither CR nor LF; the text written is the
\* pairs, a line feed inside each, a blank line between two.
PairedRecords(exact) ==
    LET strs == probe.strings
        idx == probe.idx
        w(n) == IF exact \/ n < 100000 THEN 5 ELSE 6
        dec(n) == [j \in 1..w(n) |-> 48 + ((n \div 10 ^ (w(n) - j)) % 10)]
        shaped(r, m, n) ==
            /\ Len(r) >= w(n) + 3
            /\ r[1] = m /\ SubSeq(r, 2, w(n) + 1) = dec(n)
            /\ r[w(n) + 2] = m /\ r[w(n) + 3] = 32
            /\ \A j \in (w(n) + 4)..Len(r) : r[j] \notin {10, 13}
        block(k) == strs[2 * k - 1] \o <<10>> \o strs[2 * k]
    IN  probe.fn = "ext_constant" =>
        /\ Len(strs) = 2 * Len(idx)
        /\ idx # <<>> => idx[Len(idx)] = probe.counter
        /\ \A k \in 1..Len(idx) :
               /\ k > 1 => idx[k] = idx[k - 1] + 1
               /\ shaped(strs[2 * k - 1], 9675, idx[k])
               /\ shaped(strs[2 * k], 9679, idx[k])
               /\ SubSeq(strs[2 * k - 1], w(idx[k]) + 3, Len(strs[2 * k - 1]))
                      = SubSeq(strs[2 * k], w(idx[k]) + 3, Len(strs[2 * k]))
        /\ probe.step # "walk" =>
               utf8_decode(probe.file) =
                   Concat([k \in 1..Len(idx) |->
                              (IF k > 1 THEN <<10, 10>> ELSE <<>>) \o block(k)])

\* as claimed: the index has five digits
C12_PairsFiveDigits == PairedRecords(TRUE)

\* as the code has it: the index has at least five digits, exactly five up
\* to 99999 and six from 100000 on
C12_PairsMinFiveDigits == PairedRecords(FALSE)

C12_Witness ==
    /\ probe.step = "exported" /\ probe.idx = <<99999, 100000>>
    /\ Len(probe.strings) = 4
    /\ SubSeq(probe.strings[4], 1, 9) = <<9679, 49, 48, 48, 48, 48, 48, 9679, 32>>


(* ------------------------------- C13 ---------------------------------- *)
\* what one line of a mapping file says, [hit, idx, txt]: the marker, a
\* number, the marker again, the text less one blank at its start. With
\* exact the number is five decimal digits; without, anything int() reads
\* as a decimal number: blanks around it, one sign, any count of digits
LineSays(line, exact) ==
    LET marks == {j \in 2..Len(line) : line[j] = MarkerFull}
        k == CHOOSE j \in marks : \A m \in marks : j <= m
        body == {j \in 2..(k - 1) : line[j] # Space}
        lo == CHOOSE j \in body : \A m \in body : j <= m
        hi == CHOOSE j \in body : \A m \in body : j >= m
        signed == line[lo] \in {43, 45}
        from == IF signed THEN lo + 1 ELSE lo
        number == /\ body # {}
                  /\ from <= hi
                  /\ \A j \in from..hi : line[j] \in 48..57
        five == k = 7 /\ \A j \in 2..6 : line[j] \in 48..57
        value == digits_value(SubSeq(line, from, hi))
        rest == SubSeq(line, k + 1, Len(line))
    IN  IF line # <<>> /\ line[1] = MarkerFull /\ marks # {}
           /\ (IF exact THEN five ELSE number)
        THEN [hit |-> TRUE,
              idx |-> IF signed /\ line[lo] = 45 THEN -value ELSE value,
              txt |-> IF rest # <<>> /\ rest[1] = Space THEN Tail(rest) ELSE rest]
        ELSE [hit |-> FALSE, idx |-> 0, txt |-> <<>>]

\* the mapping a file of these lines stands for: an index has the text of
\* the last line that names it, and no other index has any
LinesSay(lines, exact) ==
    LET hits == {j \in 1..Len(lines) : LineSays(lines[j], exact).hit}
        last(n) == CHOOSE j \in hits :
                      /\ LineSays(lines[j], exact).idx = n
                      /\ \A m \in hits : LineSays(lines[m], exact).idx = n => m <= j
    IN  [n \in {LineSays(lines[j], exact).idx : j \in hits} |->
            LineSays(lines[last(n)], exact).txt]

\* C13 as stated: load_mapping folds the lines in order; a line of the
\* marker, a 5-digit zero-padded index, the marker and the text sets the
\* index to the text less one leading blank; a later line overwrites an
\* earlier one; every line not of that form leaves the mapping unchanged
C13_FiveDigitLinesOnly ==
    (probe.fn = "load_mapping" /\ probe.step = "loaded") => probe.mapping = LinesSay(probe.strings, TRUE)

\* C13, amended: the same fold, where the index between the two markers is
\* any text int() reads as a decimal number (any count of digits, blanks
\* around it, a sign); only the other lines leave the mapping unchanged
C13_NumberLines ==
    (probe.fn = "load_mapping" /\ probe.step = "loaded") => probe.mapping = LinesSay(probe.strings, FALSE)

\* a later line overwrote index 0, and of the two blanks before its text
\* one is kept, as is the blank after it
C13_Witness ==
    /\ probe.fn = "load_mapping" /\ probe.step = "loaded"
    /\ probe.strings = <<record_line(MarkerFull, 0, <<65>>),
                         <<MarkerFull, 48, 48, 48, 48, 48, MarkerFull, 32, 32, 67, 32>>>>
    /\ probe.mapping = map_set(EmptyMapping, 0, <<32, 67, 32>>)


(* ------------------------------- C14 ---------------------------------- *)
\* the string constants of a prototype tree in pre-order: those of the
\* prototype's own table in table order, then those of each child in array
\* order; source names, local-variable and upvalue names are not among them
RECURSIVE PreOrder(_)
PreOrder(p) ==
    LET own == SelectSeq(p.consts, LAMBDA c : c.tag = TagString /\ c.s # None)
    IN  [k \in 1..Len(own) |-> own[k].s.bytes]
        \o Concat([k \in 1..Len(p.kids) |-> PreOrder(p.kids[k])])

\* the chunks of prototype trees, each with its strings in pre-order
TreeChunks ==
    {[data |-> chunk_bytes(DefaultHeader, p), strings |-> PreOrder(p)] : p \in TreeProtos}
    \cup {[data |-> chunk_bytes(h, WidthProto), strings |-> PreOrder(WidthProto)] :
              h \in Headers}

\* C14: indices are assigned in pre-order, depth first.  The indices of a
\* walk, of either mode, are 0, 1, 2, ... without a gap; and at every
\* point of an extraction walk over a prototype tree the records written
\* so far are those of the first strings of the tree in pre-order, the k-th
\* of them under index k-1, and of all of them once the walk has returned:
\* no source name, local-variable or upvalue name has taken an index.
C14_PreOrder ==
    /\ \A i \in Files :
          /\ \A k \in 1..Len(extIdx[i]) : extIdx[i][k] = k - 1
          /\ \A k \in 1..Len(patIdx[i]) : patIdx[i][k] = k - 1
    /\ (tool = "extract" /\ pc = "walk") =>
          \A c \in TreeChunks :
             data = c.data =>
                LET want == c.strings
                    n == Len(extIdx[cur])
                IN  /\ Len(strings) = 2 * n
                    /\ n <= Len(want)
                    /\ \A k \in 1..n :
                          strings[2 * k]
                             = record_line(MarkerFull, k - 1, escape(decode(want[k])))
                    /\ stack = <<>> => n = Len(want)

\* the walk over a tree with debug information has returned: "A" of the top
\* prototype, "C" and "B" of its first child and of that child's child,
\* then "C" of the second child, under 0, 1, 2, 3
C14_Witness ==
    /\ tool = "extract" /\ pc = "walk" /\ stack = <<>>
    /\ data = chunk_bytes(DefaultHeader,
                 Proto(Some(<<64, 97>>), <<Str(<<65>>)>>,
                       <<Proto(None, <<Str(<<67>>)>>, <<Leaf(TRUE)>>, TRUE),
                         Proto(None, <<Str(<<67>>)>>, <<>>, TRUE)>>, TRUE))
    /\ extIdx[cur] = <<0, 1, 2, 3>>
    /\ strings[4] = record_line(MarkerFull, 1, <<67>>)
    /\ strings[6] = record_line(MarkerFull, 2, <<66>>)
    /\ strings[8] = record_line(MarkerFull, 3, <<67>>)


(* ------------------------------- C15 ---------------------------------- *)
\* C15: the text round trip.  For every table of string constants, reading
\* the text extract.py wrote for it with load_mapping gives a mapping whose
\* keys are exactly the indices emitted and whose value under each index is
\* exactly the display text emitted for it, whatever blanks, markers or
\* control characters other than CR and LF the text holds.
C15_TextRoundTrip ==
    (probe.fn = "ext_constant" /\ probe.step = "loaded") =>
        /\ DOMAIN probe.mapping = {probe.idx[k] : k \in 1..Len(probe.idx)}
        /\ \A k \in 1..Len(probe.idx) :
              LET rec == probe.strings[2 * k]
                  lead == Len(record_line(MarkerFull, probe.idx[k], <<>>))
              IN  probe.mapping[probe.idx[k]] = SubSeq(rec, lead + 1, Len(rec))

\* the constant "A", form feed, "B" was written under index 0 and read
\* back as "A"
C15_Witness ==
    /\ probe.fn = "ext_constant" /\ probe.step = "loaded"
    /\ probe.strings = <<record_line(MarkerOpen, 0, <<65, 12, 66>>),
                         record_line(MarkerFull, 0, <<65, 12, 66>>)>>
    /\ probe.mapping = map_set(EmptyMapping, 0, <<65>>)


(* ------------------------------- C16 ---------------------------------- *)
\* C16: un-escaping inverts the escaping.  When patch_const_string
\* substitutes the line extract.py wrote for a constant, with letters an
\* editor added at its end, the bytes it answers stand for the constant's
\* text followed by those letters: un-escaping the display form of the text
\* gave the text back, no character the editor left alone was changed.
C16_UnescapeInvertsEscape ==
    (probe.fn = "patch_const_string" /\ probe.step = "patched") =>
        decode(probe.file) = decode(probe.data) \o probe.strings[1]

\* the constant is a backslash and the letter n; with an "X" added to its
\* line the bytes answered are a line feed and "X"
C16_Witness ==
    /\ probe.fn = "patch_const_string" /\ probe.step = "patched"
    /\ probe.data = <<Backslash, LetterN>>
    /\ probe.mapping = map_set(EmptyMapping, 0, <<Backslash, LetterN, 88>>)
    /\ probe.file = <<LF, 88>>


(* ------------------------------- C17 ---------------------------------- *)
\* C17: a walk goes forward.  From one piece of process_proto to the next,
\* in either mode and on any buffer, the read cursor does not move
\* backwards; a recursive call starts at a position greater than the one
\* its caller started at; and in Patch Mode the output buffer after the
\* piece is the buffer before it with bytes appended.
C17_WalkForward ==
    [][(pc = "walk" /\ pc' = "walk" /\ stack # <<>>) =>
          /\ pos' >= pos
          /\ Len(stack') > Len(stack) => stack'[Len(stack')].start > top.start
          /\ tool = "import" => IsPrefix(out, out')]_vars

\* sizelineinfo, at offset 40, was read as -3: the cursor stands at 36,
\* before the field, for sizeupvalues
C17_Witness ==
    /\ pc = "walk" /\ stack # <<>> /\ top.phase = "locvars"
    /\ data = NegativeSizeChunk
    /\ struct_unpack_from("<", TRUE, 4, data, 40) = -3
    /\ pos = 36

====
